---------------------------- MODULE Spec2Model ----------------------------
(***************************************************************************)
(* kiianigen: generator of LED animations for the kiibohd configurator.    *)
(*                                                                         *)
(* The repository holds two versions of the script: src/kiianigen.js (the  *)
(* first version) and src/unnamed/part_000 (the later version, with        *)
(* interpolation functions, parameters and more generators).  Definitions  *)
(* without a suffix model the later version; definitions ending in Old     *)
(* model the first version where the two differ.                           *)
(*                                                                         *)
(* JavaScript values are tagged records, strings are sequences of          *)
(* one-character strings, and a number is an integer or a fraction v/d.    *)
(***************************************************************************)
EXTENDS Integers, Sequences, FiniteSets, TLC

VARIABLES
    random,     \* the values Math.random() returns, as numerators over RandomDen, used cyclically
    call,       \* the function call under examination: its name and arguments
    ret,        \* the value the call returned
    pc,         \* the position of main()
    files,      \* the file system: the configurator's files, kiianiconf.json, json_out
    console,    \* the lines written to the console
    generator,  \* process.argv[2], trimmed
    json,       \* the parsed KType-Standard.json
    kll,        \* the parsed kll.json
    maxRow,
    maxCol,
    blankLeds,
    keyedLeds,
    ledIdByScanCode,
    baseLeds,   \* the elements of the arrays LEFT_BASE_LEDS and RIGHT_BASE_LEDS
    iter        \* the position of the loop over the generators or the active animations

callVars == <<call, ret>>
mainVars == <<pc, files, console, generator, json, kll, maxRow, maxCol, blankLeds,
              keyedLeds, ledIdByScanCode, baseLeds, iter>>
vars == <<random, call, ret, pc, files, console, generator, json, kll, maxRow, maxCol,
          blankLeds, keyedLeds, ledIdByScanCode, baseLeds, iter>>

---------------------------------------------------------------------------
(* Bounds of the model *)

MaxSteps == 10      \* largest step count passed to the bleed functions
MaxColors == 3     \* largest number of colours passed to multiColorBleed
RandomDen == 256    \* Math.random() returns k / RandomDen, 0 <= k < RandomDen
MaxTracerSteps == 26   \* largest stepsPerColor passed to verticalPulseWithTracers
MaxTracerColors == 3   \* largest number of colours passed to verticalPulseWithTracers

---------------------------------------------------------------------------
(* JavaScript values *)

Undefined == [t |-> "undefined"]
Null == [t |-> "null"]
Rat(n, d) == [t |-> "number", v |-> n, d |-> d]
Num(n) == Rat(n, 1)
Str(cs) == [t |-> "string", v |-> cs]
Arr(a) == [t |-> "array", v |-> a]
Fn(name) == [t |-> "function", v |-> name]

\* an object: the sequence of its properties, in the order they were added
Obj(props) == [t |-> "object", v |-> props]

IsUndefined(x) == x.t = "undefined"
IsNull(x) == x.t = "null"
IsNumber(x) == x.t = "number"
IsArray(x) == x.t = "array"

\* !!x
Truthy(x) ==
    CASE x.t = "undefined" -> FALSE
      [] x.t = "null" -> FALSE
      [] x.t = "number" -> x.v # 0
      [] x.t = "string" -> x.v # <<>>
      [] OTHER -> TRUE

\* ToNumber for the operands of < and <=: null is 0; a number is itself
LessThan(x, k) ==
    CASE x.t = "number" -> x.v < k * x.d
      [] x.t = "null" -> 0 < k
      [] OTHER -> FALSE

\* x[i]: an element of an array; undefined past its end and on a number
Get(x, i) ==
    IF x.t = "array" /\ i.t = "number" /\ i.d = 1 /\ i.v >= 0 /\ i.v < Len(x.v)
    THEN x.v[i.v + 1]
    ELSE Undefined

\* (i in x) for an array x
HasIndex(x, i) == x.t = "array" /\ i >= 0 /\ i < Len(x.v)

Digit(n) == <<"0", "1", "2", "3", "4", "5", "6", "7", "8", "9">>[n + 1]

RECURSIVE NatToString(_)
NatToString(n) ==
    IF n < 10 THEN <<Digit(n)>> ELSE Append(NatToString(n \div 10), Digit(n % 10))

RECURSIVE JSToString(_)
RECURSIVE JoinRange(_, _, _, _)

\* Array.prototype.join of the elements lo..hi: undefined and null elements are
\* written as the empty string
JoinRange(a, sep, lo, hi) ==
    IF lo > hi THEN <<>>
    ELSE IF lo = hi
    THEN IF a[lo].t \in {"undefined", "null"} THEN <<>> ELSE JSToString(a[lo])
    ELSE LET mid == (lo + hi) \div 2
         IN  JoinRange(a, sep, lo, mid) \o sep \o JoinRange(a, sep, mid + 1, hi)

JSToString(x) ==
    CASE x.t = "number" ->
            IF x.v < 0 THEN <<"-">> \o NatToString(-x.v) ELSE NatToString(x.v)
      [] x.t = "string" -> x.v
      [] x.t = "undefined" -> <<"u", "n", "d", "e", "f", "i", "n", "e", "d">>
      [] x.t = "null" -> <<"n", "u", "l", "l">>
      [] x.t = "array" -> JoinRange(x.v, <<",">>, 1, Len(x.v))
      [] OTHER -> <<"f", "u", "n", "c", "t", "i", "o", "n">>

Join(a, sep) == Str(JoinRange(a, sep, 1, Len(a)))

\* a + b, where one of the operands is a string
Concat(a, b) == Str(JSToString(a) \o JSToString(b))

---------------------------------------------------------------------------
(* The script's globals once the file is loaded, before main() runs *)

NoFiles == [ktype |-> Undefined, kll |-> Undefined, conf |-> Undefined, out |-> <<>>]

NoCall == [f |-> "none"]

\* the LEDs of the base, from the middle of the front along the left and along
\* the right side to the middle of the back
LEFT_BASE_LEDS ==
    <<94, 95, 96, 97, 98, 99, 100, 101, 102, 103, 104, 105, 106, 107, 108, 109, 110>>

RIGHT_BASE_LEDS ==
    <<94, 93, 92, 91, 90, 89, 88, 119, 118, 117, 116, 115, 114, 113, 112, 111, 110>>

\* an array of numbers
Numbers(ids) == [k \in 1..Len(ids) |-> Num(ids[k])]

Globals ==
    /\ pc = "start"
    /\ console = <<>>
    /\ json = Undefined
    /\ kll = Undefined
    /\ maxRow = 0
    /\ maxCol = 0
    /\ blankLeds = Undefined
    /\ keyedLeds = Undefined
    /\ ledIdByScanCode = Undefined
    /\ baseLeds = [LEFT_BASE_LEDS |-> Numbers(LEFT_BASE_LEDS),
                   RIGHT_BASE_LEDS |-> Numbers(RIGHT_BASE_LEDS)]
    /\ iter = 0

---------------------------------------------------------------------------
(* IEEE-754 binary64 arithmetic.  A real number is kept exactly as n/d;    *)
(* err is the sign of (double computed by the script) - (n/d) when n/d is  *)
(* a half-integer, the only place where Math.round can tell them apart.    *)

Real(n, d, err) == [n |-> n, d |-> d, err |-> err]

Abs(x) == IF x < 0 THEN -x ELSE x
Sign(x) == IF x > 0 THEN 1 ELSE IF x < 0 THEN -1 ELSE 0

RECURSIVE GCD(_, _)
GCD(a, b) == IF b = 0 THEN a ELSE GCD(b, a % b)

\* floor(log2(n/d)) for n, d > 0
RECURSIVE FloorLog2(_, _)
FloorLog2(n, d) ==
    IF n >= 2 * d THEN FloorLog2(n, 2 * d) + 1
    ELSE IF n < d THEN FloorLog2(2 * n, d) - 1
    ELSE 0

\* 2^k mod m by repeated squaring (m < 2^15)
Pow2Step(h, k, m) == (h * h * (IF k % 2 = 1 THEN 2 ELSE 1)) % m

RECURSIVE Pow2Mod(_, _)
Pow2Mod(k, m) == IF k = 0 THEN 1 % m ELSE Pow2Step(Pow2Mod(k \div 2, m), k, m)

RECURSIVE IsPow2(_)
IsPow2(d) == IF d = 1 THEN TRUE ELSE IF d % 2 = 1 THEN FALSE ELSE IsPow2(d \div 2)

\* n/d rounded to the nearest integer, ties to even (d > 0)
RoundHalfEven(n, d) ==
    LET fl == n \div d
        r2 == 2 * (n - fl * d)
    IN  IF r2 < d THEN fl
        ELSE IF r2 > d THEN fl + 1
        ELSE IF fl % 2 = 0 THEN fl ELSE fl + 1

\* The rounding error of the double n / m (n # 0, m > 0, both integers), as
\* (rn / rd) * 2^E: the quotient is rounded to 53 significant bits.
FlQuotAt(n, m, e, rem) ==
    [rn |-> Sign(n) * (IF 2 * rem < m THEN -rem ELSE m - rem), rd |-> m, E |-> e - 52]

FlQuotFrom(n, m, e) == FlQuotAt(n, m, e, (Abs(n) * Pow2Mod(52 - e, m)) % m)

FlQuotErr(n, m) == FlQuotFrom(n, m, FloorLog2(Abs(n), m))

\* The error left after rounding xn/xd + (p.rn / p.rd) * 2^(p.E) to the nearest
\* double, where xn/xd # 0 is a dyadic number of a few bits: a whole number of
\* units in the last place of xn/xd (of half units just below a power of two).
FlRoundScaled(s, e, low, g, p) ==
    [rn |-> s * RoundHalfEven(IF g >= 0 THEN s * p.rn * 2^g ELSE s * p.rn,
                              IF g >= 0 THEN p.rd ELSE p.rd * 2^(-g)),
     rd |-> 1, E |-> IF low THEN e - 53 ELSE e - 52]

FlRoundAt(s, e, low, p) ==
    FlRoundScaled(s, e, low, p.E - (e - 52) + (IF low THEN 1 ELSE 0), p)

\* low: the sum lies just below the power of two xn/xd
FlRoundFrom(xn, xd, s, e, p) ==
    FlRoundAt(s, e,
              /\ s * p.rn < 0
              /\ IF e >= 0 THEN Abs(xn) = xd * 2^e ELSE Abs(xn) * 2^(-e) = xd,
              p)

FlRoundErr(xn, xd, p) ==
    IF p.rn = 0 THEN [rn |-> 0, rd |-> 1, E |-> 0]
    ELSE FlRoundFrom(xn, xd, Sign(xn), FloorLog2(Abs(xn), xd), p)

IsHalfInteger(n, d) == (2 * n) % d = 0 /\ n % d # 0

\* Math.round: the nearest integer, a half rounded up
MathRound(x) ==
    LET exact == (2 * x.n + x.d) \div (2 * x.d)
    IN  IF x.err < 0 /\ IsHalfInteger(x.n, x.d) THEN exact - 1 ELSE exact

\* Math.floor
MathFloor(x) == x.n \div x.d

\* Math.max(x, lo), Math.min(x, hi) on integers
MathMax(x, y) == IF x >= y THEN x ELSE y
MathMin(x, y) == IF x <= y THEN x ELSE y

\* Math.random(): the k-th value drawn (k counts from 0), a numerator over RandomDen
MathRandom(k) == random[(k % Len(random)) + 1]

---------------------------------------------------------------------------
(* Pixel command encoder *)

\* the address parts, in the order they are pushed on rc
PixelAddressColFirst(row, col, pixelNumber) ==
    (IF ~IsUndefined(col) /\ ~IsNull(col)
     THEN <<Concat(Str(<<"c", ":">>), col)>> ELSE <<>>)
    \o (IF ~IsUndefined(row) /\ ~IsNull(row)
        THEN <<Concat(Str(<<"r", ":">>), row)>> ELSE <<>>)
    \o (IF ~IsUndefined(pixelNumber) /\ ~IsNull(pixelNumber)
        THEN <<pixelNumber>> ELSE <<>>)
PixelAddress(row, col, pixelNumber) ==
    (IF ~IsUndefined(row) /\ ~IsNull(row)
     THEN <<Concat(Str(<<"r", ":">>), row)>> ELSE <<>>)
    \o (IF ~IsUndefined(col) /\ ~IsNull(col)
        THEN <<Concat(Str(<<"c", ":">>), col)>> ELSE <<>>)
    \o (IF ~IsUndefined(pixelNumber) /\ ~IsNull(pixelNumber)
        THEN <<pixelNumber>> ELSE <<>>)

\* ((r) ? r : 0)
PixelChannel(r) == IF Truthy(r) THEN r ELSE Num(0)

\* 'P[' + rc.join(',') + '](' + colors.join(',') + ')'
PixelCommand(rc, colors) ==
    Str(<<"P", "[">> \o Join(rc, <<",">>).v \o <<"]", "(">>
        \o Join(colors, <<",">>).v \o <<")">>)

getPixel(row, col, r, g, b, pixelNumber) ==
    PixelCommand(PixelAddress(row, col, pixelNumber),
                 <<PixelChannel(r), PixelChannel(g), PixelChannel(b)>>)

---------------------------------------------------------------------------
(* Interpolation primitives.  step and the two values are integers, steps  *)
(* is a number; the result is the real number the script computes.         *)

\* (val2 - val1) * (step / steps) + val1
LinearErr(step, steps, val1, diff, n, q) ==
    IF val1 = 0
    THEN FlRoundErr(diff * step, steps.v, [rn |-> q.rn * diff, rd |-> q.rd, E |-> q.E])
    ELSE FlRoundErr(n, steps.v,
                    FlRoundErr(diff * step, steps.v,
                               [rn |-> q.rn * diff, rd |-> q.rd, E |-> q.E]))

LinearReal(step, steps, val1, diff, n) ==
    Real(n, steps.v,
         IF /\ steps.d = 1
            /\ IsHalfInteger(n, steps.v)
            /\ ~IsPow2(steps.v \div GCD(step, steps.v))
         THEN Sign(LinearErr(step, steps, val1, diff, n, FlQuotErr(step, steps.v)).rn)
         ELSE 0)

linearInterpolate(step, steps, val1, val2) ==
    LinearReal(step, steps, val1, val2 - val1,
               (val2 - val1) * step * steps.d + val1 * steps.v)

\* (val2 - val1) * Math.random() + val1, where Math.random() returned u / RandomDen
randomInterpolate(step, steps, val1, val2, u) ==
    Real((val2 - val1) * u + val1 * RandomDen, RandomDen, 0)

\* Math.sin and Math.PI in fixed point: a value x in [0, 1] is the integer
\* x * SineOne, and products are formed from 15-bit halves to stay within 32 bits.
SineOne == 2^30
SineHalf == 2^15
QuarterPi == 843314857      \* Math.PI / 4

\* a * b
MulFix(a, b) ==
    LET ah == a \div SineHalf
        al == a % SineHalf
        bh == b \div SineHalf
        bl == b % SineHalf
    IN  ah * bh + (ah * bl + al * bh) \div SineHalf + (al * bl) \div SineOne

\* a * (n / d) for integers 0 <= n <= d
MulDiv(a, n, d) == (a \div d) * n + ((a % d) * n) \div d

\* 1 - (y / ks[i]) * (1 - (y / ks[i + 1]) * (1 - ...)): the power series of the
\* cosine (ks = 2, 12, 30, ...) and of sin(x) / x (ks = 6, 20, 42, ...) in y = x^2
RECURSIVE Horner(_, _, _)
Horner(y, ks, i) ==
    IF i > Len(ks) THEN SineOne
    ELSE SineOne - MulFix(y, Horner(y, ks, i + 1)) \div ks[i]

CosFix(x) == Horner(MulFix(x, x), <<2, 12, 30, 56, 90, 132>>, 1)
SinFix(x) == MulFix(x, Horner(MulFix(x, x), <<6, 20, 42, 72, 110, 156>>, 1))

\* interpolateVal = (Math.sin((step / steps) * Math.PI - Math.PI / 2) + 1) / 2 for
\* step / steps = a / b in [0, 1], which is (1 - cos(pi * a / b)) / 2
SineArc(a1, b) ==
    IF 4 * a1 <= b
    THEN CosFix(MulDiv(QuarterPi, 4 * a1, b))
    ELSE SinFix(MulDiv(QuarterPi, 2 * b - 4 * a1, b))

SineFraction(a, b) ==
    IF 2 * a > b
    THEN (SineOne + SineArc(b - a, b)) \div 2
    ELSE (SineOne - SineArc(a, b)) \div 2

\* (val2 - val1) * interpolateVal + val1.  interpolateVal is rational only at
\* step / steps = 0, 1/3, 1/2, 2/3 and 1, where the doubles are 0, 0.25, 0.5,
\* 0.75 - 2^-53 and 1; elsewhere the result is cut to a multiple of 2^-20.
SineQuarters(a, b) ==
    CASE a = 0 -> 0
      [] 3 * a = b -> 1
      [] 2 * a = b -> 2
      [] 3 * a = 2 * b -> 3
      [] a = b -> 4
      [] OTHER -> -1

SineErr(val1, diff, n4, p) == IF val1 = 0 THEN p ELSE FlRoundErr(n4, 4, p)

SineReal(val1, diff, quarters, n4, I) ==
    IF quarters >= 0
    THEN Real(n4, 4,
              IF quarters = 3 /\ IsHalfInteger(n4, 4)
              THEN Sign(SineErr(val1, diff, n4,
                                FlRoundErr(3 * diff, 4,
                                           [rn |-> -diff, rd |-> 1, E |-> -53])).rn)
              ELSE 0)
    ELSE Real(val1 * 2^20 + diff * (I \div SineHalf) * 2^5
                  + (diff * (I % SineHalf)) \div 2^10,
              2^20, 0)

\* the interpolation without the "+ val1"
SineAtFromZero(val1, diff, quarters, I) == SineReal(0, diff, quarters, diff * quarters, I)

SineAt(val1, diff, quarters, I) ==
    SineReal(val1, diff, quarters, diff * quarters + 4 * val1, I)

sineInterpolate(step, steps, val1, val2) ==
    SineAt(val1, val2 - val1, SineQuarters(step * steps.d, steps.v),
           SineFraction(step * steps.d, steps.v))

\* interpolateFunc(step, steps, val1, val2); rnd is the number of values
\* Math.random() has returned before the call
Interpolate(interpolateFunc, step, steps, val1, val2, rnd) ==
    CASE interpolateFunc.v = "linearInterpolate" ->
            linearInterpolate(step, steps, val1, val2)
      [] interpolateFunc.v = "sineInterpolate" ->
            sineInterpolate(step, steps, val1, val2)
      [] interpolateFunc.v = "randomInterpolate" ->
            randomInterpolate(step, steps, val1, val2, MathRandom(rnd))

\* origColor[i] + (s * diffSteps[i]) with diffSteps[i] = cDiff / steps, of the
\* first version
BleedErrOld(orig, steps, s, cDiff, n, q) ==
    IF orig = 0
    THEN FlRoundErr(cDiff * s, steps, [rn |-> q.rn * s, rd |-> q.rd, E |-> q.E])
    ELSE FlRoundErr(n, steps,
                    FlRoundErr(cDiff * s, steps,
                               [rn |-> q.rn * s, rd |-> q.rd, E |-> q.E]))

BleedRealOld(orig, steps, s, cDiff, n) ==
    Real(n, steps,
         IF /\ IsHalfInteger(n, steps)
            /\ ~IsPow2(steps \div GCD(Abs(cDiff), steps))
         THEN Sign(BleedErrOld(orig, steps, s, cDiff, n, FlQuotErr(cDiff, steps)).rn)
         ELSE 0)

BleedChannelOld(orig, dest, steps, s) ==
    BleedRealOld(orig, steps, s, dest - orig, (dest - orig) * s + orig * steps)

---------------------------------------------------------------------------
(* Color bleed engine *)

\* the fallback "if (steps === undefined || steps < 2) { steps = 2; step = 1; }"
BleedFallback(steps) == IsUndefined(steps) \/ LessThan(steps, 2)

BleedSteps(steps0) == IF BleedFallback(steps0) THEN Num(2) ELSE steps0

BleedStepKept(steps0, step0) == step0
BleedStep(steps0, step0) == IF BleedFallback(steps0) THEN Num(1) ELSE step0

\* val = Math.max(val, 0); val = Math.min(val, 255)
ClampNoFloor(val) == MathMin(val, 255)
Clamp(val) == MathMin(MathMax(val, 0), 255)

\* the number of colours the loop "for (s = 0; s <= steps; s++)" computes
BleedCountShort(steps0) ==
    LET steps == BleedSteps(steps0) IN steps.v \div steps.d
BleedCount(steps0) ==
    LET steps == BleedSteps(steps0) IN (steps.v \div steps.d) + 1

\* val = interpolateFunc(s, steps, origColor[idx], destColor[idx]), rounded and
\* clamped; idx counts from 1
BleedChannel(origColor, destColor, steps, interpolateFunc, rnd, s, idx) ==
    Num(Clamp(MathRound(Interpolate(interpolateFunc, s, steps, origColor.v[idx].v,
                                    destColor.v[idx].v,
                                    rnd + s * Len(origColor.v) + idx - 1))))

\* colors[step] when a step is given, all the colours otherwise
BleedResult(step, colors) ==
    IF ~IsUndefined(step) /\ ~IsNull(step) THEN Get(colors, step) ELSE colors

\* origColor.map(...) at step s
BleedChannels(origColor, destColor, steps, interpolateFunc, rnd, s) ==
    [idx \in 1..Len(origColor.v) |->
        BleedChannel(origColor, destColor, steps, interpolateFunc, rnd, s, idx)] \o <<>>

BleedColors(origColor, destColor, steps, interpolateFunc, rnd) ==
    Arr([s1 \in 1..BleedCount(steps) |->
            Arr(BleedChannels(origColor, destColor, steps, interpolateFunc, rnd,
                              s1 - 1))])

colorBleed(origColor, destColor, steps0, step0, interpolateFunc0, rnd) ==
    BleedResult(BleedStep(steps0, step0),
                BleedColors(origColor, destColor, BleedSteps(steps0),
                            IF IsUndefined(interpolateFunc0)
                            THEN Fn("linearInterpolate") ELSE interpolateFunc0,
                            rnd))

BleedResultOld(step, colors) == IF ~IsUndefined(step) THEN Get(colors, step) ELSE colors

BleedColorsOld(origColor, destColor, steps) ==
    Arr([s1 \in 1..BleedCount(steps) |->
            Arr([i \in 1..Len(origColor.v) |->
                    Num(Clamp(MathRound(BleedChannelOld(origColor.v[i].v,
                                                        destColor.v[i].v, steps.v,
                                                        s1 - 1))))])])

colorBleedOld(origColor, destColor, steps0, step0) ==
    BleedResultOld(BleedStep(steps0, step0),
                   BleedColorsOld(origColor, destColor, BleedSteps(steps0)))

\* Array.prototype.slice(1), .pop() and .concat() on sequences
SliceNone(a) == a
Slice1(a) == IF a = <<>> THEN <<>> ELSE Tail(a)
PopNone(a) == a
Pop(a) == IF a = <<>> THEN <<>> ELSE SubSeq(a, 1, Len(a) - 1)

\* the colours gathered by the first i rounds of the loop of multiColorBleed
RECURSIVE MultiBleedLoop(_, _, _, _, _)
MultiBleedLoop(frameCountPerColor, interpolateFunc, colorValues, rnd, i) ==
    IF i = 0 THEN <<>>
    ELSE
    LET n == Len(colorValues)
        cOrig == colorValues[i]
        cDest == IF i = n THEN colorValues[1] ELSE colorValues[i + 1]
        drawn == (i - 1) * BleedCount(frameCountPerColor) * Len(cOrig.v)
        Link(fade) == IF i > 1 THEN Slice1(fade) ELSE fade
    IN  MultiBleedLoop(frameCountPerColor, interpolateFunc, colorValues, rnd, i - 1)
            \o Link(colorBleed(cOrig, cDest, frameCountPerColor, Null, interpolateFunc,
                               rnd + drawn).v)

multiColorBleed(frameCountPerColor, interpolateFunc, colorValues, rnd) ==
    Arr(Pop(MultiBleedLoop(frameCountPerColor, interpolateFunc, colorValues, rnd,
                           Len(colorValues))))

RECURSIVE MultiBleedLoopOld(_, _, _)
MultiBleedLoopOld(frameCountPerColor, colorValues, i) ==
    IF i = 0 THEN <<>>
    ELSE
    LET n == Len(colorValues)
        cOrig == colorValues[i]
        cDest == IF i = n THEN colorValues[1] ELSE colorValues[i + 1]
        Link(fade) == IF i > 1 THEN Slice1(fade) ELSE fade
    IN  MultiBleedLoopOld(frameCountPerColor, colorValues, i - 1)
            \o Link(colorBleedOld(cOrig, cDest, frameCountPerColor, Undefined).v)

multiColorBleedOld(frameCountPerColor, colorValues) ==
    Arr(Pop(MultiBleedLoopOld(frameCountPerColor, colorValues, Len(colorValues))))

---------------------------------------------------------------------------
(* Calls of the bleed functions on inputs drawn from bounded sets *)

Color(r, g, b) == Arr(<<Num(r), Num(g), Num(b)>>)

Black == Color(0, 0, 0)
White == Color(255, 255, 255)
Blue == Color(0, 0, 255)
Dusk == Color(45, 102, 1)
Wild == Color(-20, 300, 128)     \* channels outside 0..255

Colors == {Black, White, Blue, Dusk, Wild}

\* the colour lists passed to multiColorBleed: runs of 1..MaxColors colours
\* taken around a ring of the colours above
ColorRing == <<Black, White, Blue, Dusk, Wild>>

ColorLists ==
    {[i \in 1..k |-> ColorRing[((first + i - 2) % Len(ColorRing)) + 1]] :
        first \in 1..Len(ColorRing), k \in 1..MaxColors}

StepCounts == {Undefined, Null} \cup {Num(n) : n \in -1..MaxSteps}

StepIndexes == {Undefined, Null} \cup {Num(n) : n \in 0..MaxSteps + 1}

InterpolateFuncs ==
    {Undefined, Fn("linearInterpolate"), Fn("sineInterpolate"), Fn("randomInterpolate")}

Seeds == {<<0>>, <<RandomDen - 1>>, <<0, RandomDen - 1, RandomDen \div 2>>}

InitBleed ==
    /\ random \in Seeds
    /\ call = NoCall
    /\ ret = Undefined
    /\ generator = Undefined
    /\ files = NoFiles
    /\ Globals

CallColorBleed ==
    /\ call = NoCall
    /\ \E origColor \in Colors, destColor \in Colors, steps \in StepCounts,
          step \in StepIndexes, interpolateFunc \in InterpolateFuncs :
          /\ call' = [f |-> "colorBleed", origColor |-> origColor,
                      destColor |-> destColor, steps |-> steps, step |-> step,
                      interpolateFunc |-> interpolateFunc]
          /\ ret' = colorBleed(origColor, destColor, steps, step, interpolateFunc, 0)
    /\ UNCHANGED <<random, mainVars>>

CallColorBleedOld ==
    /\ call = NoCall
    /\ \E origColor \in Colors, destColor \in Colors, steps \in StepCounts,
          step \in StepIndexes :
          /\ call' = [f |-> "colorBleedOld", origColor |-> origColor,
                      destColor |-> destColor, steps |-> steps, step |-> step]
          /\ ret' = colorBleedOld(origColor, destColor, steps, step)
    /\ UNCHANGED <<random, mainVars>>

CallMultiColorBleed ==
    /\ call = NoCall
    /\ \E frameCountPerColor \in StepCounts, interpolateFunc \in InterpolateFuncs,
          colorValues \in ColorLists :
          /\ call' = [f |-> "multiColorBleed", frameCountPerColor |-> frameCountPerColor,
                      interpolateFunc |-> interpolateFunc, colorValues |-> colorValues]
          /\ ret' = multiColorBleed(frameCountPerColor, interpolateFunc, colorValues, 0)
    /\ UNCHANGED <<random, mainVars>>

CallMultiColorBleedOld ==
    /\ call = NoCall
    /\ \E frameCountPerColor \in StepCounts, colorValues \in ColorLists :
          /\ call' = [f |-> "multiColorBleedOld",
                      frameCountPerColor |-> frameCountPerColor,
                      colorValues |-> colorValues]
          /\ ret' = multiColorBleedOld(frameCountPerColor, colorValues)
    /\ UNCHANGED <<random, mainVars>>

NextBleed ==
    \/ CallColorBleed
    \/ CallColorBleedOld
    \/ CallMultiColorBleed
    \/ CallMultiColorBleedOld

SpecBleed == InitBleed /\ [][NextBleed]_vars

---------------------------------------------------------------------------
(* Calls of getPixel on inputs drawn from bounded sets *)

Percent(n) == Concat(Num(n), Str(<<"%">>))

RowArgs == {Undefined, Null, Num(0), Num(2), Percent(-2)}
ColArgs == {Undefined, Null, Num(3), Percent(101)}
ChannelArgs == {Undefined, Null, Num(0), Num(10), Num(20), Num(30), Num(255)}
PixelNumberArgs == {Undefined, Null, Num(0), Num(42)}

InitPixel ==
    /\ random = <<0>>
    /\ call = NoCall
    /\ ret = Undefined
    /\ generator = Undefined
    /\ files = NoFiles
    /\ Globals

CallGetPixel ==
    /\ call = NoCall
    /\ \E row \in RowArgs, col \in ColArgs, r \in ChannelArgs, g \in ChannelArgs,
          b \in ChannelArgs, pixelNumber \in PixelNumberArgs :
          /\ call' = [f |-> "getPixel", row |-> row, col |-> col, r |-> r, g |-> g,
                      b |-> b, pixelNumber |-> pixelNumber]
          /\ ret' = getPixel(row, col, r, g, b, pixelNumber)
    /\ UNCHANGED <<random, mainVars>>

NextPixel == CallGetPixel

SpecPixel == InitPixel /\ [][NextPixel]_vars

---------------------------------------------------------------------------
(* Strings *)

IsSpace(c) == c \in {" ", "\t", "\n"}

WordChars ==
    {"a", "b", "c", "d", "e", "f", "g", "h", "i", "j", "k", "l", "m", "n", "o", "p", "q",
     "r", "s", "t", "u", "v", "w", "x", "y", "z", "A", "B", "C", "D", "E", "F", "G", "H",
     "I", "J", "K", "L", "M", "N", "O", "P", "Q", "R", "S", "T", "U", "V", "W", "X", "Y",
     "Z", "0", "1", "2", "3", "4", "5", "6", "7", "8", "9", "_"}

LowerCase == <<"a", "b", "c", "d", "e", "f", "g", "h", "i", "j", "k", "l", "m", "n", "o", "p", "q", "r", "s", "t", "u", "v", "w", "x", "y", "z">>
UpperCase == <<"A", "B", "C", "D", "E", "F", "G", "H", "I", "J", "K", "L", "M", "N", "O", "P", "Q", "R", "S", "T", "U", "V", "W", "X", "Y", "Z">>

\* String.prototype.toUpperCase on one character
ToUpperCase(c) ==
    IF \E k \in 1..Len(LowerCase) : LowerCase[k] = c
    THEN UpperCase[CHOOSE k \in 1..Len(LowerCase) : LowerCase[k] = c]
    ELSE c

RECURSIVE TrimLeft(_)
TrimLeft(cs) == IF cs # <<>> /\ IsSpace(Head(cs)) THEN TrimLeft(Tail(cs)) ELSE cs

RECURSIVE TrimRight(_)
TrimRight(cs) ==
    IF cs # <<>> /\ IsSpace(cs[Len(cs)]) THEN TrimRight(SubSeq(cs, 1, Len(cs) - 1)) ELSE cs

\* String.prototype.trim
Trim(cs) == TrimRight(TrimLeft(cs))

\* animName.replace(/\s+/g, '_'): every run of white space becomes one underscore
RECURSIVE ReplaceSpaces(_)
ReplaceSpaces(cs) ==
    IF cs = <<>> THEN <<>>
    ELSE IF IsSpace(Head(cs)) THEN <<"_">> \o ReplaceSpaces(TrimLeft(cs))
    ELSE <<Head(cs)>> \o ReplaceSpaces(Tail(cs))

\* .replace(/\W+/g, ''): the characters that are no letter, digit or underscore go
RemoveNonWord(cs) == SelectSeq(cs, LAMBDA c : c \in WordChars)

\* generator[0].toUpperCase() + generator.substring(1)
Capitalize(cs) == IF cs = <<>> THEN <<"u", "n", "d", "e", "f", "i", "n", "e", "d">> ELSE <<ToUpperCase(Head(cs))>> \o Tail(cs)

\* a number written with at least k digits, as dateFormat does
RECURSIVE Padded(_, _)
Padded(n, k) ==
    IF k <= 1 THEN NatToString(n) ELSE Padded(n \div 10, k - 1) \o <<Digit(n % 10)>>

---------------------------------------------------------------------------
(* Objects: a JavaScript object is the sequence of its properties, in the  *)
(* order they were added.                                                  *)

HasKey(obj, name) == \E k \in 1..Len(obj) : obj[k].name = name

Lookup(obj, name) ==
    IF HasKey(obj, name)
    THEN obj[CHOOSE k \in 1..Len(obj) : obj[k].name = name].value
    ELSE Undefined

\* the assignment left out
PutKept(obj, name, value) == obj

\* the object replaced by one that has the property alone
PutAlone(obj, name, value) == <<[name |-> name, value |-> value]>>

\* obj[name] = value
Put(obj, name, value) ==
    IF HasKey(obj, name)
    THEN [k \in 1..Len(obj) |-> IF obj[k].name = name
                                THEN [name |-> name, value |-> value] ELSE obj[k]]
    ELSE Append(obj, [name |-> name, value |-> value])

\* Object.keys(obj)
Keys(obj) == [k \in 1..Len(obj) |-> obj[k].name]

---------------------------------------------------------------------------
(* Helpers of the generators *)

\* Array.prototype.reverse
Reverse(a) == [k \in 1..Len(a) |-> a[Len(a) + 1 - k]]

\* the arrays lo..hi of ss, one after the other
RECURSIVE FlattenRange(_, _, _)
FlattenRange(ss, lo, hi) ==
    IF lo > hi THEN <<>>
    ELSE IF lo = hi THEN ss[lo]
    ELSE FlattenRange(ss, lo, (lo + hi) \div 2) \o FlattenRange(ss, (lo + hi) \div 2 + 1, hi)

Flatten(ss) == FlattenRange(ss, 1, Len(ss))

\* the k-th argument of a call: undefined past the arguments given
Arg(params, k) == IF k <= Len(params) THEN params[k] ELSE Undefined

\* Array.prototype.slice.call(arguments, k - 1): the arguments from the k-th on
Rest(params, k) == SubSeq(params, k, Len(params))

\* Math.ceil(n / d) for d > 0
MathCeil(n, d) == -((-n) \div d)

\* getPixel(row, col, color[0], color[1], color[2], pixelNumber)
ColorPixel(row, col, color, pixelNumber) ==
    getPixel(row, col, Get(color, Num(0)), Get(color, Num(1)), Get(color, Num(2)),
             pixelNumber)

\* the animation object a generator returns
Animation(settings, frames) ==
    [settings |-> settings, type |-> Str(<<"a", "n", "i", "m", "a", "t", "i", "o", "n">>), frames |-> Arr(frames)]

\* frame.join(",")
JoinFrame(frame) == Join(frame, <<",">>)

normColor(colorVal) == MathMax(MathMin(MathRound(colorVal), 255), 0)

defd(val) == ~IsUndefined(val) /\ ~IsNull(val)

getShiftedArray(arr) == IF arr = <<>> THEN <<Undefined>> ELSE Tail(arr) \o <<Head(arr)>>

\* arr after k rounds of "arr.push(arr.shift())"
ShiftedBy(arr, k) ==
    IF k = 0 THEN arr
    ELSE IF arr = <<>> THEN getShiftedArray(arr)
    ELSE [i \in 1..Len(arr) |-> arr[((i - 1 + k) % Len(arr)) + 1]]

\* a rotation that takes from the front instead of the back
UnshiftedFromFront(arr, k) ==
    IF k = 0 \/ arr = <<>> THEN arr
    ELSE [i \in 1..Len(arr) |-> arr[((i - 1 + k) % Len(arr)) + 1]]

\* arr after k rounds of "arr.unshift(arr.pop())"
UnshiftedBy(arr, k) ==
    IF k = 0 \/ arr = <<>> THEN arr
    ELSE [i \in 1..Len(arr) |-> arr[((i - 1 + (Len(arr) - 1) * k) % Len(arr)) + 1]]

IsDigitChar(c) == c \in {"0", "1", "2", "3", "4", "5", "6", "7", "8", "9"}

DigitValue(c) ==
    CASE c = "0" -> 0 [] c = "1" -> 1 [] c = "2" -> 2 [] c = "3" -> 3 [] c = "4" -> 4
      [] c = "5" -> 5 [] c = "6" -> 6 [] c = "7" -> 7 [] c = "8" -> 8 [] c = "9" -> 9

\* the index after the run of digits that starts at index k
RECURSIVE DigitsEnd(_, _)
DigitsEnd(cs, k) ==
    IF k <= Len(cs) /\ IsDigitChar(cs[k]) THEN DigitsEnd(cs, k + 1) ELSE k

\* parseInt(cs[from..to], 10) of a run of digits
RECURSIVE ParseDigits(_, _, _)
ParseDigits(cs, from, to) ==
    IF to < from THEN 0 ELSE 10 * ParseDigits(cs, from, to - 1) + DigitValue(cs[to])

\* parseInt(a.match(/\[(\d+)\]/)[1], 10), the search starting at index k; -1 when
\* nothing matches (where the script throws)
RECURSIVE MatchPixelId(_, _)
MatchPixelId(cs, k) ==
    IF k > Len(cs) THEN -1
    ELSE LET e == DigitsEnd(cs, k + 1)
         IN  IF cs[k] = "[" /\ e > k + 1 /\ e <= Len(cs) /\ cs[e] = "]"
             THEN ParseDigits(cs, k + 1, e - 1)
             ELSE MatchPixelId(cs, k + 1)

\* parseInt(px.match(/\[(\d+)\]/)[1], 10) of every pixel of the frame
PixelIds(frame) == [k \in 1..Len(frame) |-> MatchPixelId(frame[k].v, 1)] \o <<>>

\* the place the sort gives the k-th pixel: behind the pixels with a smaller id
\* and behind the earlier pixels with its id
SortedPlace(ids, k) ==
    Cardinality({j \in 1..Len(ids) : ids[j] < ids[k] \/ (ids[j] = ids[k] /\ j < k)}) + 1

SortedPlaces(ids) == [k \in 1..Len(ids) |-> SortedPlace(ids, k)] \o <<>>

SortedByPlace(frame, places) ==
    [p \in 1..Len(frame) |-> frame[CHOOSE k \in 1..Len(frame) : places[k] = p]]

\* the frame as it was pushed
FrameUnsorted(frame) == frame

\* frame.sort(function(a, b) { return id(a) - id(b); })
sortPixelFrame(frame) ==
    SortedByPlace(frame, SortedPlaces(PixelIds(frame)))

---------------------------------------------------------------------------
(* Key groups and base LEDs *)

KEY_GROUPS ==
    << [name |-> "FUNC_KEY_GROUP",
        keys |-> <<Arr(<<Str(<<"0", "x", "0", "1">>), Str(<<"0", "x", "1", "0">>)>>)>>],
       [name |-> "LEFT_GROUP",
        keys |-> <<Str(<<"0", "x", "1", "1">>), Str(<<"0", "x", "2", "4">>), Str(<<"0", "x", "3", "6">>), Str(<<"0", "x", "4", "5">>),
                   Arr(<<Str(<<"0", "x", "5", "5">>), Str(<<"0", "x", "5", "7">>)>>)>>],
       [name |-> "LETTERS_GROUP",
        keys |-> <<Arr(<<Str(<<"0", "x", "1", "2">>), Str(<<"0", "x", "1", "D">>)>>),
                   Arr(<<Str(<<"0", "x", "2", "5">>), Str(<<"0", "x", "3", "0">>)>>),
                   Arr(<<Str(<<"0", "x", "3", "7">>), Str(<<"0", "x", "4", "1">>)>>),
                   Arr(<<Str(<<"0", "x", "4", "7">>), Str(<<"0", "x", "5", "0">>)>>)>>],
       [name |-> "RIGHT_GROUP",
        keys |-> <<Str(<<"0", "x", "1", "F">>), Str(<<"0", "x", "3", "1">>), Str(<<"0", "x", "4", "3">>), Str(<<"0", "x", "5", "2">>),
                   Arr(<<Str(<<"0", "x", "5", "9">>), Str(<<"0", "x", "5", "C">>)>>)>>],
       [name |-> "SPACE_GROUP", keys |-> <<Str(<<"0", "x", "5", "8">>)>>],
       [name |-> "NAV_GROUP",
        keys |-> <<Arr(<<Str(<<"0", "x", "2", "1">>), Str(<<"0", "x", "2", "3">>)>>),
                   Arr(<<Str(<<"0", "x", "3", "3">>), Str(<<"0", "x", "3", "5">>)>>)>>],
       [name |-> "ARROW_GROUP",
        keys |-> <<Str(<<"0", "x", "5", "4">>), Arr(<<Str(<<"0", "x", "5", "D">>), Str(<<"0", "x", "5", "F">>)>>)>>],
       [name |-> "BASE_GROUP", keys |-> <<Arr(<<Num(88), Num(119)>>)>>] >>

\* the ids pushed by "for (i = 88; i <= 119; i++)"
BaseIds == [k \in 1..32 |-> Num(87 + k)]

---------------------------------------------------------------------------
(* Pulse and breath animations built on multiColorBleed *)

\* one frame per colour: the colour on the columns -1% and 101%
PulseFrames(colors) ==
    [k \in 1..Len(colors.v) |->
        JoinFrame(<<ColorPixel(Null, Str(<<"-", "1", "%">>), colors.v[k], Undefined),
                    ColorPixel(Null, Str(<<"1", "0", "1", "%">>), colors.v[k], Undefined)>>)]

colorPulseGenerator(frameCountPerColor, args) ==
    Animation(Str(<<"f", "r", "a", "m", "e", "d", "e", "l", "a", "y", ":", "3", ",", " ", "f", "r", "a", "m", "e", "s", "t", "r", "e", "t", "c", "h", ",", " ", "l", "o", "o", "p", ",", " ", "r", "e", "p", "l", "a", "c", "e", ":", "a", "l", "l", ",", " ", "p", "f", "u", "n", "c", ":", "i", "n", "t", "e", "r", "p">>),
              PulseFrames(multiColorBleed(frameCountPerColor, Undefined, args, 0)))

\* (secondsPerBreath * 100 / FRAME_DELAY) / 2 with secondsPerBreath = 60 /
\* breathsPerMinute and FRAME_DELAY = 3
StepsPerInhale(breathsPerMinute) ==
    LET k == GCD(1000, breathsPerMinute)
    IN  Rat(1000 \div k, breathsPerMinute \div k)

colorBreatheGenerator(breathsPerMinute, colorValues) ==
    Animation(Concat(Concat(Str(<<"f", "r", "a", "m", "e", "d", "e", "l", "a", "y", ":">>), Num(3)),
                         Str(<<",", " ", "f", "r", "a", "m", "e", "s", "t", "r", "e", "t", "c", "h", ",", " ", "l", "o", "o", "p", ",", " ", "r", "e", "p", "l", "a", "c", "e", ":", "a", "l", "l", ",", " ", "p", "f", "u", "n", "c", ":", "i", "n", "t", "e", "r", "p">>)),
              PulseFrames(multiColorBleed(StepsPerInhale(breathsPerMinute),
                                          Fn("sineInterpolate"), colorValues, 0)))

---------------------------------------------------------------------------
(* The generators *)

\* the first frame: every pixel of the grid in the background colour
DodgyBackground(bgColor) ==
    [k \in 1..(maxRow + 1) * (maxCol + 1) |->
        ColorPixel(Num((k - 1) \div (maxCol + 1)), Num((k - 1) % (maxCol + 1)), bgColor,
                   Undefined)]

\* Math.round(Math.random() * max) of the n-th value drawn
DodgyDraw(n, max) == Num(MathRound(Real(MathRandom(n) * max, RandomDen, 0)))

\* the 50 blinks: a random pixel in the highlight colour, then in the background's
DodgyBlinks(hiColor, bgColor) ==
    [k \in 1..2 * 50 |->
        ColorPixel(DodgyDraw(2 * ((k - 1) \div 2), maxRow),
                   DodgyDraw(2 * ((k - 1) \div 2) + 1, maxCol),
                   IF k % 2 = 1 THEN hiColor ELSE bgColor, Undefined)]

DefaultColor(color0, r, g, b) == IF ~Truthy(color0) THEN Color(r, g, b) ELSE color0

dodgyPixelBackgroundOnly(hiColor0, bgColor0) ==
    Animation(Str(<<"f", "r", "a", "m", "e", "d", "e", "l", "a", "y", ":", "1", ",", " ", "l", "o", "o", "p", ",", " ", "r", "e", "p", "l", "a", "c", "e", ":", "a", "l", "l">>),
              <<JoinFrame(DodgyBackground(DefaultColor(bgColor0, 25, 25, 25)))>>)

dodgyPixel(hiColor0, bgColor0) ==
    Animation(Str(<<"f", "r", "a", "m", "e", "d", "e", "l", "a", "y", ":", "1", ",", " ", "l", "o", "o", "p", ",", " ", "r", "e", "p", "l", "a", "c", "e", ":", "a", "l", "l">>),
              <<JoinFrame(DodgyBackground(DefaultColor(bgColor0, 25, 25, 25)))>>
              \o DodgyBlinks(DefaultColor(hiColor0, 255, 255, 255),
                             DefaultColor(bgColor0, 25, 25, 25)))

\* the columns 0, 2, ..., 102 gathered by "while (column <= maxColumn)"
Kitt2000Columns == [k \in 1..52 |-> 2 * (k - 1)]

\* bleedColors after "bleedColors.shift()"
Kitt2000BleedColors(hiColor, bgColor, width) ==
    Arr(Slice1(colorBleed(hiColor, bgColor, width, Undefined, Undefined, 0).v))

\* the pixels left of the head: the tail that still touches the left edge, or
\* the background up to the end of the tail
Kitt2000Left(bgColor, reversedBleedColors, length, n) ==
    IF HasIndex(reversedBleedColors, length - n)
    THEN <<[col |-> Str(<<"0", "%">>),
            color |-> Get(reversedBleedColors, Num(length - n))]>>
    ELSE IF length - n < 0
    THEN <<[col |-> Str(<<"0", "%">>), color |-> bgColor],
           [col |-> Percent(Kitt2000Columns[n - length + 1]),
            color |-> Get(reversedBleedColors, Num(0))]>>
    ELSE <<>>

Kitt2000Right(bgColor, reversedBleedColors, length, n) ==
    IF HasIndex(reversedBleedColors, Len(Kitt2000Columns) - n + 1)
    THEN <<[col |-> Str(<<"1", "0", "0", "%">>),
            color |-> Get(reversedBleedColors, Num(Len(Kitt2000Columns) - n + 1))]>>
    ELSE IF n + length < Len(Kitt2000Columns)
    THEN <<[col |-> Percent(Kitt2000Columns[n + length + 1]),
            color |-> Get(reversedBleedColors, Num(0))],
           [col |-> Str(<<"1", "0", "0", "%">>), color |-> bgColor]>>
    ELSE <<>>

\* the columns of one frame and their colours, in the order they are pushed
Kitt2000Pixels(bgColor, bleedColors, reversedBleedColors, n) ==
    <<[col |-> Str(<<"-", "2", "%">>), color |-> bgColor]>>
    \o Kitt2000Left(bgColor, reversedBleedColors, Len(bleedColors.v), n)
    \o <<[col |-> Percent(Kitt2000Columns[n + 1]), color |-> Get(bleedColors, Num(0))]>>
    \o Kitt2000Right(bgColor, reversedBleedColors, Len(bleedColors.v), n)
    \o <<[col |-> Str(<<"1", "0", "2", "%">>), color |-> bgColor]>>

ColumnPixels(pixels) ==
    [k \in 1..Len(pixels) |-> ColorPixel(Null, pixels[k].col, pixels[k].color, Undefined)]

createKitt2000Frame(bgColor, bleedColors, n) ==
    ColumnPixels(Kitt2000Pixels(bgColor, bleedColors, Arr(Reverse(bleedColors.v)), n))

\* i = 0 .. columns.length - 1, then i = columns.length - 2 down to 2
Kitt2000Order(count) ==
    [k \in 1..count |-> k - 1] \o [k \in 1..count - 3 |-> count - 1 - k]

Kitt2000Frames(bgColor, bleedColors, order) ==
    [k \in 1..Len(order) |-> JoinFrame(createKitt2000Frame(bgColor, bleedColors, order[k]))]

kitt2000(hiColor0, bgColor0, width0) ==
    Animation(Str(<<"f", "r", "a", "m", "e", "d", "e", "l", "a", "y", ":", "2", ",", " ", "f", "r", "a", "m", "e", "s", "t", "r", "e", "t", "c", "h", ",", " ", "l", "o", "o", "p", ",", " ", "r", "e", "p", "l", "a", "c", "e", ":", "a", "l", "l", ",", " ", "p", "f", "u", "n", "c", ":", "i", "n", "t", "e", "r", "p">>),
              Kitt2000Frames(DefaultColor(bgColor0, 0, 0, 0),
                             Kitt2000BleedColors(DefaultColor(hiColor0, 255, 0, 0),
                                                 DefaultColor(bgColor0, 0, 0, 0),
                                                 IF IsUndefined(width0) THEN Num(5)
                                                 ELSE width0),
                             Kitt2000Order(Len(Kitt2000Columns))))

\* one frame of the wipe: the background above, the line at row n percent, the
\* background below.  On the way up the first pixel is built by
\* getPixel('-2%', bgColor[0], null, bgColor[1], bgColor[2]): the red channel is
\* passed as the column
BluewipeFrame(n, up) ==
    JoinFrame(<<getPixel(Percent(-2), IF up THEN Num(93) ELSE Null,
                         IF up THEN Null ELSE Num(93), Num(93), Num(93), Undefined),
                ColorPixel(Percent(n), Null, Color(0, 26, 255), Undefined),
                ColorPixel(Percent(102), Null, Color(93, 93, 93), Undefined)>>)

\* steps = 50, overflow = 1: the values of i in
\* "for (i = -overflow; i < steps + overflow + 1; i++)" and in
\* "for (i = steps + overflow + 1; i > -overflow - 1; i--)"
BluewipeDown == [k \in 1..53 |-> k - 2]
BluewipeUp == [k \in 1..54 |-> 53 - k]

\* the line is at ((i - overflow) * step) percent, step = 100 / steps
bluewipe(maxFrames) ==
    Animation(Str(<<"f", "r", "a", "m", "e", "d", "e", "l", "a", "y", ":", "3", ",", " ", "f", "r", "a", "m", "e", "s", "t", "r", "e", "t", "c", "h", ",", " ", "l", "o", "o", "p", ",", " ", "r", "e", "p", "l", "a", "c", "e", ":", "a", "l", "l", ",", " ", "p", "f", "u", "n", "c", ":", "i", "n", "t", "e", "r", "p">>),
              [k \in 1..Len(BluewipeDown) + Len(BluewipeUp) |->
                  IF k <= Len(BluewipeDown)
                  THEN BluewipeFrame((BluewipeDown[k] - 1) * 2, FALSE)
                  ELSE BluewipeFrame((BluewipeUp[k - Len(BluewipeDown)] - 1) * 2, TRUE)])

macSleepBreath(hiColor0, loColor0) ==
    colorBreatheGenerator(12, <<DefaultColor(hiColor0, 255, 255, 255),
                                DefaultColor(loColor0, 1, 1, 1)>>)

blueGreenBreath == colorBreatheGenerator(12, <<Color(0, 255, 0), Color(0, 0, 255)>>)

\* the base pixels of a frame: the ids, each with botColor scaled by j / ids.length
BasePixels(ids, botColor) ==
    [k \in 1..Len(ids) |->
        getPixel(Null, Null,
                 Num(normColor(Real(Get(botColor, Num(0)).v * (k - 1), Len(ids), 0))),
                 Num(normColor(Real(Get(botColor, Num(1)).v * (k - 1), Len(ids), 0))),
                 Num(normColor(Real(Get(botColor, Num(2)).v * (k - 1), Len(ids), 0))),
                 ids[k])]

\* the keyboard pixels 1 and 87 in one colour
TopPixels(topColor) ==
    [i \in 1..2 |-> ColorPixel(Null, Null, topColor, Num(<<1, 87>>[i]))]

SpinFrames(topColors, botColors) ==
    [k \in 1..Len(topColors.v) |->
        JoinFrame(TopPixels(topColors.v[k])
                  \o BasePixels(UnshiftedBy(BaseIds, k), botColors.v[k]))]

\* FRAME_DELAY = 10; stepsPerInhale = (secondsPerBreath * 100 / FRAME_DELAY) / 2
\* with secondsPerBreath = 6.4
blueGreenBaseTopBreathSpin ==
    Animation(Concat(Concat(Str(<<"f", "r", "a", "m", "e", "d", "e", "l", "a", "y", ":">>), Num(10)),
                         Str(<<",", " ", "f", "r", "a", "m", "e", "s", "t", "r", "e", "t", "c", "h", ",", " ", "l", "o", "o", "p", ",", " ", "r", "e", "p", "l", "a", "c", "e", ":", "a", "l", "l", ",", " ", "p", "f", "u", "n", "c", ":", "i", "n", "t", "e", "r", "p">>)),
              SpinFrames(multiColorBleed(Num((64 * 100) \div (10 * 10 * 2)),
                                         Fn("sineInterpolate"),
                                         <<Color(0, 255, 0), Color(0, 0, 255)>>, 0),
                         multiColorBleed(Num((64 * 100) \div (10 * 10 * 2)),
                                         Fn("sineInterpolate"),
                                         <<Color(0, 0, 255), Color(0, 255, 0)>>, 0)))

\* the colours of keyGroupCycler and verticalPulseWithTracers: the arguments
\* after the first, the first two defaulting to green and blue
DefaultedColors(args) ==
    <<IF defd(Arg(args, 1)) THEN args[1] ELSE Color(0, 255, 0),
      IF defd(Arg(args, 2)) THEN args[2] ELSE Color(0, 0, 255)>> \o Rest(args, 3)

keyToId(key) ==
    IF key.t = "string"
    THEN IF key.v \in DOMAIN ledIdByScanCode THEN ledIdByScanCode[key.v] ELSE Undefined
    ELSE key

\* the values of k in "for (var k = id0; k <= idN; k++)"
IdRange(id0, idN) ==
    IF IsNumber(id0) /\ IsNumber(idN)
    THEN [k \in 1..idN.v - id0.v + 1 |-> Num(id0.v + k - 1)]
    ELSE <<>>

\* the pixels of one entry of a key group: a range of ids or a single key
IdPixels(ids, color) == [k \in 1..Len(ids) |-> ColorPixel(Null, Null, color, ids[k])]

KeyPixels(key, color) ==
    IdPixels(IF IsArray(key)
             THEN IdRange(keyToId(key.v[1]), keyToId(key.v[2]))
             ELSE <<keyToId(key)>>,
             color)

\* the pixels of the n-th key group in the colour of its f-th frame
GroupPixels(keyGroupFrames, n, f) ==
    Flatten([j \in 1..Len(KEY_GROUPS[n].keys) |->
                KeyPixels(KEY_GROUPS[n].keys[j], Get(keyGroupFrames[n], Num(f)))])

\* one frame per colour of the last group's bleed
GroupFrames(keyGroupFrames) ==
    [k \in 1..Len(keyGroupFrames[Len(KEY_GROUPS)].v) |->
        JoinFrame(Flatten([n \in 1..Len(KEY_GROUPS) |->
                              GroupPixels(keyGroupFrames, n, k - 1)]))]

\* every group with the colours as they were given
GroupBleedsUnshifted(stepsPerColor, colorValues) ==
    [n \in 1..Len(KEY_GROUPS) |->
        multiColorBleed(stepsPerColor, Fn("sineInterpolate"), colorValues, 0)] \o <<>>

\* the bleed of each group: the colours shifted once per group
GroupBleeds(stepsPerColor, colorValues) ==
    [n \in 1..Len(KEY_GROUPS) |->
        multiColorBleed(stepsPerColor, Fn("sineInterpolate"),
                        ShiftedBy(colorValues, n - 1), 0)] \o <<>>

keyGroupCycler(stepsPerColor0, args) ==
    Animation(Concat(Concat(Str(<<"f", "r", "a", "m", "e", "d", "e", "l", "a", "y", ":">>), Num(10)),
                         Str(<<",", " ", "f", "r", "a", "m", "e", "s", "t", "r", "e", "t", "c", "h", ",", " ", "l", "o", "o", "p", ",", " ", "r", "e", "p", "l", "a", "c", "e", ":", "a", "l", "l">>)),
              GroupFrames(GroupBleeds(IF IsUndefined(stepsPerColor0)
                                         \/ IsNull(stepsPerColor0)
                                      THEN Num(16) ELSE stepsPerColor0,
                                      DefaultedColors(args))))

\* the number of nulls appended to the two sides of the base, and the steps per
\* colour that let the tracers complete whole rounds
TracerPlan(stepsPerColor, colorCount) ==
    LET base == Len(baseLeds.LEFT_BASE_LEDS)
        actualStepsPerInhale == IF base > stepsPerColor THEN base ELSE stepsPerColor
        total == colorCount * actualStepsPerInhale
        uneven == total % base > 0
        currentLoops == total \div base
        diff == total - base * currentLoops
        addSteps == IF uneven THEN MathCeil(diff, currentLoops) ELSE 0
        longer == uneven /\ (base + addSteps) * currentLoops > total
    IN  [addSteps |-> addSteps,
         stepsPerInhale |->
             IF longer
             THEN MathRound(Real((base + addSteps) * currentLoops, colorCount, 0))
             ELSE actualStepsPerInhale]

\* the bottom colour as it is, whatever the intensity
TracerColorFull(botColor, intensityDen) ==
    Arr(<<Get(botColor, Num(0)), Get(botColor, Num(1)), Get(botColor, Num(2))>>)

\* the base pixels of one frame of verticalPulseWithTracers
\* normColor(botColor[c] * intensity), intensity = 1 / intensityDen
TracerColor(botColor, intensityDen) ==
    Arr(<<Num(normColor(Real(Get(botColor, Num(0)).v, intensityDen, 0))),
          Num(normColor(Real(Get(botColor, Num(1)).v, intensityDen, 0))),
          Num(normColor(Real(Get(botColor, Num(2)).v, intensityDen, 0)))>>)

\* both ids of position j, also where the two sides meet
TracerIdsBoth(ltSide, rtSide, j) ==
    IF IsNull(ltSide[j]) THEN <<>> ELSE <<ltSide[j], rtSide[j]>>

\* the ids lit at position j: the left one, and the right one unless the two
\* sides meet there (94 and 110)
TracerIds(ltSide, rtSide, j) ==
    IF IsNull(ltSide[j]) THEN <<>>
    ELSE <<ltSide[j]>> \o (IF ltSide[j] # Num(94) /\ ltSide[j] # Num(110)
                           THEN <<rtSide[j]>> ELSE <<>>)

\* onIntensity = 1 on the last three positions, offIntensity = 0.05 elsewhere
TracerPair(ltSide, rtSide, botColor, j) ==
    IdPixels(TracerIds(ltSide, rtSide, j),
             TracerColor(botColor, IF j - 1 > Len(ltSide) - 4 THEN 1 ELSE 20))

TracerPixels(ltSide, rtSide, botColor) ==
    Flatten([j \in 1..Len(ltSide) |-> TracerPair(ltSide, rtSide, botColor, j)])

\* the array LEFT_BASE_LEDS or RIGHT_BASE_LEDS: "ref" tells which array it is,
\* "v" what it holds
GlobalArray(name) == [ref |-> name, v |-> baseLeds[name]]

\* no copy: the same array
SliceSame(array) == array

\* array.slice(0): a new array with the elements of the array
SliceCopy(array) == [ref |-> "", v |-> array.v]

\* LEFT_BASE_LEDS.slice(0) and RIGHT_BASE_LEDS.slice(0) with addSteps nulls pushed
TracerSide(leds, addSteps) ==
    [SliceCopy(leds) EXCEPT !.v = @ \o [k \in 1..addSteps |-> Null]]

\* what the array "name" holds after the generator has pushed addSteps nulls to
\* its side and shifted it once per frame: what it held, unless the side is the
\* array itself
TracerLeaves(name, addSteps, frameCount) ==
    IF TracerSide(GlobalArray(name), addSteps).ref = name
    THEN ShiftedBy(TracerSide(GlobalArray(name), addSteps).v, frameCount)
    ELSE baseLeds[name]

TracerFrames(ltSide, rtSide, topColors, botColors) ==
    [k \in 1..Len(topColors.v) |->
        JoinFrame(sortPixelFrame(
            TopPixels(topColors.v[k])
            \o TracerPixels(ShiftedBy(ltSide, k - 1), ShiftedBy(rtSide, k - 1),
                            botColors.v[k])))]

TracerAnimation(plan, colorValues) ==
    TracerFrames(TracerSide(GlobalArray("LEFT_BASE_LEDS"), plan.addSteps).v,
                 TracerSide(GlobalArray("RIGHT_BASE_LEDS"), plan.addSteps).v,
                 multiColorBleed(Num(plan.stepsPerInhale), Fn("sineInterpolate"),
                                 colorValues, 0),
                 multiColorBleed(Num(plan.stepsPerInhale), Fn("sineInterpolate"),
                                 getShiftedArray(colorValues), 0))

\* stepsPerColor, 32 when it is not given
TracerSteps(stepsPerColor0) ==
    IF IsUndefined(stepsPerColor0) \/ IsNull(stepsPerColor0) THEN Num(32) ELSE stepsPerColor0

TracerColored(stepsPerColor, colorValues) ==
    TracerAnimation(TracerPlan(stepsPerColor.v, Len(colorValues)), colorValues)

verticalPulseWithTracers(stepsPerColor0, args) ==
    Animation(Concat(Concat(Str(<<"f", "r", "a", "m", "e", "d", "e", "l", "a", "y", ":">>), Num(5)),
                         Str(<<",", " ", "f", "r", "a", "m", "e", "s", "t", "r", "e", "t", "c", "h", ",", " ", "l", "o", "o", "p", ",", " ", "r", "e", "p", "l", "a", "c", "e", ":", "a", "l", "l", ",", " ", "p", "f", "u", "n", "c", ":", "i", "n", "t", "e", "r", "p">>)),
              TracerColored(TracerSteps(stepsPerColor0), DefaultedColors(args)))

\* the keyboard pixels 1 and 87 in the top colour, the base pixels 88 and 119
\* in the bottom colour
BreathFrames(topColors, botColors) ==
    [k \in 1..Len(topColors.v) |->
        JoinFrame([i \in 1..4 |->
                      ColorPixel(Null, Null,
                                 IF i <= 2 THEN topColors.v[k] ELSE botColors.v[k],
                                 Num(<<1, 87, 88, 119>>[i]))])]

\* secondsPerBreath = Math.round(60 / 12), FRAME_DELAY = 3
BreathBleeds(color1, color2) ==
    BreathFrames(multiColorBleed(StepsPerInhale(12), Fn("sineInterpolate"),
                                 <<color1, color2>>, 0),
                 multiColorBleed(StepsPerInhale(12), Fn("sineInterpolate"),
                                 <<color2, color1>>, 0))

baseTopBreath(color10, color20) ==
    Animation(Concat(Concat(Str(<<"f", "r", "a", "m", "e", "d", "e", "l", "a", "y", ":">>), Num(3)),
                         Str(<<",", " ", "f", "r", "a", "m", "e", "s", "t", "r", "e", "t", "c", "h", ",", " ", "l", "o", "o", "p", ",", " ", "r", "e", "p", "l", "a", "c", "e", ":", "a", "l", "l", ",", " ", "p", "f", "u", "n", "c", ":", "i", "n", "t", "e", "r", "p">>)),
              BreathBleeds(DefaultColor(color10, 0, 255, 0), DefaultColor(color20, 0, 0, 255)))

redPulse == colorPulseGenerator(Num(240), <<Color(255, 25, 0), Color(0, 0, 0)>>)

linearPulse(hiColor0, loColor0) ==
    colorPulseGenerator(Num(240), <<DefaultColor(hiColor0, 255, 25, 0),
                                    DefaultColor(loColor0, 0, 0, 0)>>)

blueYellowPulse == colorPulseGenerator(Num(240), <<Color(0, 0, 255), Color(255, 255, 0)>>)

rgbPulse ==
    colorPulseGenerator(Num(120), <<Color(255, 0, 0), Color(0, 255, 0), Color(0, 0, 255)>>)

rgbZebraPulse ==
    colorPulseGenerator(Num(120),
                        <<Color(255, 0, 0), Color(255, 255, 255), Color(0, 255, 0),
                          Color(255, 255, 255), Color(0, 0, 255), Color(255, 255, 255)>>)

\* the ids "for (var p = 1; p <= 119; p++)" visits
WhiteNoiseLeds == 119

\* the rounds of the loop when only an absent maxFrames is replaced
WhiteNoiseFramesAsGiven(maxFrames0) ==
    LET maxFrames == IF IsUndefined(maxFrames0) THEN Num(20) ELSE maxFrames0
    IN  IF IsNumber(maxFrames) /\ maxFrames.v > 0
        THEN MathCeil(maxFrames.v, maxFrames.d) ELSE 0

\* the rounds of "for (var f = 0; f < maxFrames; f++)"
WhiteNoiseFrames(maxFrames0) ==
    LET maxFrames == IF ~Truthy(maxFrames0) THEN Num(20) ELSE maxFrames0
    IN  IF IsNumber(maxFrames) /\ maxFrames.v > 0
        THEN MathCeil(maxFrames.v, maxFrames.d) ELSE 0

whiteNoise(maxFrames0) ==
    LET maxIntensity == 153
        frame(f) ==
            [p \in 1..WhiteNoiseLeds |->
                LET rIntensity ==
                        Num(MathFloor(Real(MathRandom(f * WhiteNoiseLeds + p - 1)
                                               * maxIntensity, RandomDen, 0)))
                IN  getPixel(Null, Null, rIntensity, rIntensity, rIntensity, Num(p))]
    IN  Animation(Str(<<"f", "r", "a", "m", "e", "d", "e", "l", "a", "y", ":", "1", ",", " ", "l", "o", "o", "p", ",", " ", "r", "e", "p", "l", "a", "c", "e", ":", "a", "l", "l">>),
                  [k \in 1..WhiteNoiseFrames(maxFrames0) |-> JoinFrame(frame(k - 1))])

\* the frame with the LEDs that have a scan code first
topAndBottomKeyedFirst ==
    LET frame == [k \in 1..Len(keyedLeds) |->
                     getPixel(Null, Null, Num(0), Num(0), Num(255), keyedLeds[k].id)]
                 \o [k \in 1..Len(blankLeds) |->
                        getPixel(Null, Null, Num(0), Num(255), Num(0), blankLeds[k].id)]
    IN  Animation(Str(<<"f", "r", "a", "m", "e", "d", "e", "l", "a", "y", ":", "5", ",", " ", "l", "o", "o", "p", ",", " ", "r", "e", "p", "l", "a", "c", "e", ":", "a", "l", "l">>), <<JoinFrame(frame)>>)

topAndBottom ==
    LET frame == [k \in 1..Len(blankLeds) |->
                     getPixel(Null, Null, Num(0), Num(255), Num(0), blankLeds[k].id)]
                 \o [k \in 1..Len(keyedLeds) |->
                        getPixel(Null, Null, Num(0), Num(0), Num(255), keyedLeds[k].id)]
    IN  Animation(Str(<<"f", "r", "a", "m", "e", "d", "e", "l", "a", "y", ":", "5", ",", " ", "l", "o", "o", "p", ",", " ", "r", "e", "p", "l", "a", "c", "e", ":", "a", "l", "l">>), <<JoinFrame(frame)>>)

topAndBottom2 ==
    LET topColor == Color(0, 255, 0)
        botColor == Color(0, 0, 255)
    IN  Animation(Str(<<"f", "r", "a", "m", "e", "d", "e", "l", "a", "y", ":", "5", ",", " ", "l", "o", "o", "p", ",", " ", "r", "e", "p", "l", "a", "c", "e", ":", "a", "l", "l", ",", " ", "p", "f", "u", "n", "c", ":", "i", "n", "t", "e", "r", "p">>),
                  [k \in 1..Len(BaseIds) |->
                      JoinFrame(<<ColorPixel(Null, Null, topColor, Num(1)),
                                  ColorPixel(Null, Null, topColor, Num(87))>>
                                \o BasePixels(UnshiftedBy(BaseIds, k), botColor))])

escapeTest ==
    LET channel(n, max) == Num(MathFloor(Real(MathRandom(n) * max, RandomDen, 0)))
        frame(f) ==
            <<getPixel(Null, Null, channel(6 * f, 255), channel(6 * f + 1, 0),
                       channel(6 * f + 2, 0), Num(1)),
              getPixel(Null, Null, channel(6 * f + 3, 255), channel(6 * f + 4, 0),
                       channel(6 * f + 5, 0), Num(16))>>
    IN  Animation(Str(<<"f", "r", "a", "m", "e", "d", "e", "l", "a", "y", ":", "1", ",", " ", "l", "o", "o", "p", ",", " ", "r", "e", "p", "l", "a", "c", "e", ":", "a", "l", "l">>),
                  [k \in 1..10 |-> JoinFrame(frame(k - 1))])

\* Object.keys(generators)
GeneratorNames ==
    << <<"d", "o", "d", "g", "y", "P", "i", "x", "e", "l">>, <<"k", "i", "t", "t", "2", "0", "0", "0">>, <<"b", "l", "u", "e", "w", "i", "p", "e">>, <<"m", "a", "c", "S", "l", "e", "e", "p", "B", "r", "e", "a", "t", "h">>,
       <<"b", "l", "u", "e", "G", "r", "e", "e", "n", "B", "r", "e", "a", "t", "h">>, <<"b", "l", "u", "e", "G", "r", "e", "e", "n", "B", "a", "s", "e", "T", "o", "p", "B", "r", "e", "a", "t", "h", "S", "p", "i", "n">>, <<"k", "e", "y", "G", "r", "o", "u", "p", "C", "y", "c", "l", "e", "r">>,
       <<"v", "e", "r", "t", "i", "c", "a", "l", "P", "u", "l", "s", "e", "W", "i", "t", "h", "T", "r", "a", "c", "e", "r", "s">>, <<"b", "a", "s", "e", "T", "o", "p", "B", "r", "e", "a", "t", "h">>, <<"r", "e", "d", "P", "u", "l", "s", "e">>,
       <<"l", "i", "n", "e", "a", "r", "P", "u", "l", "s", "e">>, <<"b", "l", "u", "e", "Y", "e", "l", "l", "o", "w", "P", "u", "l", "s", "e">>, <<"r", "g", "b", "P", "u", "l", "s", "e">>, <<"r", "g", "b", "Z", "e", "b", "r", "a", "P", "u", "l", "s", "e">>,
       <<"w", "h", "i", "t", "e", "N", "o", "i", "s", "e">>, <<"t", "o", "p", "A", "n", "d", "B", "o", "t", "t", "o", "m">>, <<"t", "o", "p", "A", "n", "d", "B", "o", "t", "t", "o", "m", "2">>, <<"e", "s", "c", "a", "p", "e", "T", "e", "s", "t">> >>

\* generators[name].apply(null, params)
generators(name, params) ==
    CASE name = <<"d", "o", "d", "g", "y", "P", "i", "x", "e", "l">> -> dodgyPixel(Arg(params, 1), Arg(params, 2))
      [] name = <<"k", "i", "t", "t", "2", "0", "0", "0">> -> kitt2000(Arg(params, 1), Arg(params, 2), Arg(params, 3))
      [] name = <<"b", "l", "u", "e", "w", "i", "p", "e">> -> bluewipe(Arg(params, 1))
      [] name = <<"m", "a", "c", "S", "l", "e", "e", "p", "B", "r", "e", "a", "t", "h">> -> macSleepBreath(Arg(params, 1), Arg(params, 2))
      [] name = <<"b", "l", "u", "e", "G", "r", "e", "e", "n", "B", "r", "e", "a", "t", "h">> -> blueGreenBreath
      [] name = <<"b", "l", "u", "e", "G", "r", "e", "e", "n", "B", "a", "s", "e", "T", "o", "p", "B", "r", "e", "a", "t", "h", "S", "p", "i", "n">> -> blueGreenBaseTopBreathSpin
      [] name = <<"k", "e", "y", "G", "r", "o", "u", "p", "C", "y", "c", "l", "e", "r">> -> keyGroupCycler(Arg(params, 1), Rest(params, 2))
      [] name = <<"v", "e", "r", "t", "i", "c", "a", "l", "P", "u", "l", "s", "e", "W", "i", "t", "h", "T", "r", "a", "c", "e", "r", "s">> ->
            verticalPulseWithTracers(Arg(params, 1), Rest(params, 2))
      [] name = <<"b", "a", "s", "e", "T", "o", "p", "B", "r", "e", "a", "t", "h">> -> baseTopBreath(Arg(params, 1), Arg(params, 2))
      [] name = <<"r", "e", "d", "P", "u", "l", "s", "e">> -> redPulse
      [] name = <<"l", "i", "n", "e", "a", "r", "P", "u", "l", "s", "e">> -> linearPulse(Arg(params, 1), Arg(params, 2))
      [] name = <<"b", "l", "u", "e", "Y", "e", "l", "l", "o", "w", "P", "u", "l", "s", "e">> -> blueYellowPulse
      [] name = <<"r", "g", "b", "P", "u", "l", "s", "e">> -> rgbPulse
      [] name = <<"r", "g", "b", "Z", "e", "b", "r", "a", "P", "u", "l", "s", "e">> -> rgbZebraPulse
      [] name = <<"w", "h", "i", "t", "e", "N", "o", "i", "s", "e">> -> whiteNoise(Arg(params, 1))
      [] name = <<"t", "o", "p", "A", "n", "d", "B", "o", "t", "t", "o", "m">> -> topAndBottom
      [] name = <<"t", "o", "p", "A", "n", "d", "B", "o", "t", "t", "o", "m", "2">> -> topAndBottom2
      [] name = <<"e", "s", "c", "a", "p", "e", "T", "e", "s", "t">> -> escapeTest

\* the base LED arrays after verticalPulseWithTracers has made frameCount frames
TracerArrays(addSteps, frameCount) ==
    [LEFT_BASE_LEDS |-> TracerLeaves("LEFT_BASE_LEDS", addSteps, frameCount),
     RIGHT_BASE_LEDS |-> TracerLeaves("RIGHT_BASE_LEDS", addSteps, frameCount)]

\* the base LED arrays after the call generators[name].apply(null, params) has
\* returned the animation: no generator but verticalPulseWithTracers has them in
\* its hands
GeneratorLeaves(name, params, animation) ==
    IF name = <<"v", "e", "r", "t", "i", "c", "a", "l", "P", "u", "l", "s", "e", "W", "i", "t", "h", "T", "r", "a", "c", "e", "r", "s">>
    THEN TracerArrays(TracerPlan(TracerSteps(Arg(params, 1)).v,
                                 Len(DefaultedColors(Rest(params, 2)))).addSteps,
                      Len(animation.frames.v))
    ELSE baseLeds

\* the number of values the call draws from Math.random()
GeneratorDraws(name, params) ==
    CASE name = <<"d", "o", "d", "g", "y", "P", "i", "x", "e", "l">> -> 2 * 50
      [] name = <<"w", "h", "i", "t", "e", "N", "o", "i", "s", "e">> -> WhiteNoiseLeds * WhiteNoiseFrames(Arg(params, 1))
      [] name = <<"e", "s", "c", "a", "p", "e", "T", "e", "s", "t">> -> 6 * 10
      [] OTHER -> 0

---------------------------------------------------------------------------
(* The files main() reads.  The configurator's dump is a directory with    *)
(* KType-Standard.json (header, key matrix, LEDs, animations) and kll.json *)
(* (the pixel geometry); kiianiconf.json is read from the working          *)
(* directory.  A file that does not exist is Undefined.                    *)

HexDigit(n) ==
    <<"0", "1", "2", "3", "4", "5", "6", "7", "8", "9", "A", "B", "C", "D", "E", "F">>[n + 1]

\* a scan code as the configurator writes it: "0x25"
ScanCode(n) == <<"0", "x", HexDigit(n \div 16), HexDigit(n % 16)>>

\* the scan codes 0x01..0x5F that carry no key on the K-Type
UnusedScanCodes == {30, 32, 50, 66, 68, 70, 81, 83}

KTypeScanCodes == SelectSeq([k \in 1..95 |-> k], LAMBDA k : k \notin UnusedScanCodes)

\* one key of the matrix, with its layer 0 assignment
MatrixKey(n) ==
    [code |-> Str(ScanCode(n)),
     layers |-> <<[name |-> <<"0">>,
                   value |-> [key |-> Str(<<"K">> \o ScanCode(n)),
                              label |-> Str(ScanCode(n))]]>>,
     triggers |-> Undefined]

KTypeMatrix == [k \in 1..Len(KTypeScanCodes) |-> MatrixKey(KTypeScanCodes[k])]

KTypeHeader ==
    <<[name |-> <<"N", "a", "m", "e">>, value |-> Str(<<"K", "T", "y", "p", "e">>)],
      [name |-> <<"L", "a", "y", "o", "u", "t">>, value |-> Str(<<"S", "t", "a", "n", "d", "a", "r", "d">>)],
      [name |-> <<"A", "u", "t", "h", "o", "r">>, value |-> Str(<<"H", "a", "a", "T", "a">>)]>>

\* the K-Type: LEDs 1..87 under the keys, LEDs 88..119 around the base
KTypeLeds ==
    [k \in 1..119 |->
        [id |-> Num(k),
         scanCode |-> IF k <= Len(KTypeScanCodes)
                      THEN Str(ScanCode(KTypeScanCodes[k])) ELSE Undefined]]

KTypeConfig ==
    [header |-> KTypeHeader, matrix |-> KTypeMatrix, leds |-> KTypeLeds,
     animations |-> Undefined]

\* the pixel geometry of a device of "count" LEDs laid out in rows of "cols"
Geometry(count, cols) ==
    [PixelIds |-> [k \in 1..count |->
                      [name |-> NatToString(k),
                       value |-> [Row |-> (k - 1) \div cols, Col |-> (k - 1) % cols]]]]

KTypeGeometry == Geometry(119, 20)

\* an animation already stored in a config
StoredAnimation ==
    Animation(Str(<<"l", "o", "o", "p">>), <<Str(<<"P", "[", "1", "]", "(", "1", ",", "2", ",", "3", ")">>)>>)

\* a smaller device: four LEDs, two of them under keys, and an animation in store
SmallConfig ==
    [header |-> KTypeHeader, matrix |-> KTypeMatrix,
     leds |-> <<[id |-> Num(1), scanCode |-> Str(ScanCode(1))],
                [id |-> Num(2), scanCode |-> Str(ScanCode(37))],
                [id |-> Num(3), scanCode |-> Undefined],
                [id |-> Num(4), scanCode |-> Undefined]>>,
     animations |-> Obj(<<[name |-> <<"r", "a", "i", "n", "b", "o", "w">>, value |-> StoredAnimation]>>)]

SmallGeometry == Geometry(4, 2)

\* a kll.json without pixels
EmptyGeometry == Geometry(0, 1)

\* a key the user has remapped on layer 1
RemappedKey(n) ==
    [MatrixKey(n) EXCEPT
        !.layers = @ \o <<[name |-> <<"1">>,
                           value |-> [key |-> Str(<<"F", "1">>), label |-> Str(<<"F", "1">>)]]>>]

\* a config with remappings on layer 1: of Esc (0x01) and of the first two
\* trigger keys (0x25, 0x26)
RemappedConfig ==
    [SmallConfig EXCEPT
        !.matrix = [k \in 1..Len(KTypeScanCodes) |->
                       IF KTypeScanCodes[k] \in {1, 37, 38}
                       THEN RemappedKey(KTypeScanCodes[k])
                       ELSE MatrixKey(KTypeScanCodes[k])]]

\* a config that was generated before: it has an animation "redPulse" in store
RerunConfig ==
    [SmallConfig EXCEPT
        !.animations = Obj(<<[name |-> <<"r", "e", "d", "P", "u", "l", "s", "e">>, value |-> StoredAnimation],
                             [name |-> <<"r", "a", "i", "n", "b", "o", "w">>, value |-> StoredAnimation]>>)]

\* a config whose matrix has only the first two trigger keys
TwoKeyConfig ==
    [header |-> KTypeHeader, matrix |-> <<MatrixKey(37), MatrixKey(38)>>,
     leds |-> SmallConfig.leds,
     animations |-> Obj(<<[name |-> <<"r", "a", "i", "n", "b", "o", "w">>, value |-> StoredAnimation],
                      [name |-> <<"s", "p", "a", "r", "k", "l", "e">>, value |-> StoredAnimation]>>)]

---------------------------------------------------------------------------
(* kiianiconf.json *)

ConfAnimation(gen, params) == [generator |-> Str(gen), params |-> params]

DEMO_CONF ==
    [animations |->
        <<[name |-> <<"K", "A", "R", "R", " ", "1", ".", "0">>,
           value |-> ConfAnimation(<<"k", "i", "t", "t", "2", "0", "0", "0">>, Arr(<<Color(255, 102, 0)>>))],
          [name |-> <<"K", "I", "T", "T", " ", "2", "0", "0", "0">>, value |-> ConfAnimation(<<"k", "i", "t", "t", "2", "0", "0", "0">>, Arr(<<>>))],
          [name |-> <<"W", "h", "i", "t", "e", " ", "N", "o", "i", "s", "e">>, value |-> ConfAnimation(<<"w", "h", "i", "t", "e", "N", "o", "i", "s", "e">>, Undefined)],
          [name |-> <<"T", "u", "r", "q", "u", "o", "i", "s", "e", " ", "H", "e", "x", "a", "g", "o", "n", " ", "S", "u", "n">>,
           value |-> ConfAnimation(<<"b", "a", "s", "e", "T", "o", "p", "B", "r", "e", "a", "t", "h">>,
                                   Arr(<<Color(0, 255, 0), Color(0, 0, 255)>>))],
          [name |-> <<"I", "c", "e", "d", " ", "C", "o", "o", "l", "y">>,
           value |-> ConfAnimation(<<"d", "o", "d", "g", "y", "P", "i", "x", "e", "l">>,
                                   Arr(<<Color(204, 204, 204), Color(0, 0, 255)>>))],
          [name |-> <<"Q", "u", "i", "c", "k", " ", "R", "G", "B", " ", "w", "i", "t", "h", " ", "T", "r", "a", "c", "e", "r", "s">>,
           value |-> ConfAnimation(<<"v", "e", "r", "t", "i", "c", "a", "l", "P", "u", "l", "s", "e", "W", "i", "t", "h", "T", "r", "a", "c", "e", "r", "s">>,
                                   Arr(<<Num(17), Color(255, 0, 0), Color(0, 255, 0),
                                         Color(0, 0, 255)>>))]>>,
     activeAnimations |->
        <<<<"K", "A", "R", "R", " ", "1", ".", "0">>, <<"K", "I", "T", "T", " ", "2", "0", "0", "0">>, <<"T", "u", "r", "q", "u", "o", "i", "s", "e", " ", "H", "e", "x", "a", "g", "o", "n", " ", "S", "u", "n">>, <<"I", "c", "e", "d", " ", "C", "o", "o", "l", "y">>,
          <<"W", "h", "i", "t", "e", " ", "N", "o", "i", "s", "e">>, <<"Q", "u", "i", "c", "k", " ", "R", "G", "B", " ", "w", "i", "t", "h", " ", "T", "r", "a", "c", "e", "r", "s">>>>]

\* a kiianiconf.json written by a user: numbers where the generators take colours,
\* the smallest widths and step counts, and a key group cycle
UserConf ==
    [animations |->
        <<[name |-> <<"D", "o", "d", "g", "y", " ", "5">>, value |-> ConfAnimation(<<"d", "o", "d", "g", "y", "P", "i", "x", "e", "l">>, Arr(<<Num(5)>>))],
          [name |-> <<"T", "h", "i", "n", " ", "K", "I", "T", "T">>,
           value |-> ConfAnimation(<<"k", "i", "t", "t", "2", "0", "0", "0">>,
                                   Arr(<<Color(255, 0, 0), Color(0, 0, 0), Num(1)>>))],
          [name |-> <<"N", "o", "i", "s", "e", " ", "5">>, value |-> ConfAnimation(<<"w", "h", "i", "t", "e", "N", "o", "i", "s", "e">>, Arr(<<Num(5)>>))],
          [name |-> <<"G", "r", "o", "u", "p", "s">>,
           value |-> ConfAnimation(<<"k", "e", "y", "G", "r", "o", "u", "p", "C", "y", "c", "l", "e", "r">>,
                                   Arr(<<Num(2), Color(255, 0, 0), Color(0, 0, 255)>>))],
          [name |-> <<"W", "i", "p", "e", "!">>, value |-> ConfAnimation(<<"b", "l", "u", "e", "w", "i", "p", "e">>, Undefined)],
          [name |-> <<"U", "n", "u", "s", "e", "d">>, value |-> ConfAnimation(<<"r", "e", "d", "P", "u", "l", "s", "e">>, Undefined)]>>,
     activeAnimations |->
        <<<<"D", "o", "d", "g", "y", " ", "5">>, <<"T", "h", "i", "n", " ", "K", "I", "T", "T">>, <<"N", "o", "i", "s", "e", " ", "5">>, <<"G", "r", "o", "u", "p", "s">>, <<"W", "i", "p", "e", "!">>>>]

\* a kiianiconf.json that activates an animation it does not define
BrokenConf ==
    [animations |-> UserConf.animations,
     activeAnimations |-> <<<<"D", "o", "d", "g", "y", " ", "5">>, <<"M", "i", "s", "s", "i", "n", "g">>>>]

\* a kiianiconf.json with the same animation under two names
TwiceConf ==
    [animations |->
        <<[name |-> <<"T", "r", "a", "c", "e", "r", "s", " ", "A">>,
           value |-> ConfAnimation(<<"v", "e", "r", "t", "i", "c", "a", "l", "P", "u", "l", "s", "e", "W", "i", "t", "h", "T", "r", "a", "c", "e", "r", "s">>,
                                   Arr(<<Num(25), Color(255, 0, 0), Color(0, 0, 255),
                                         Color(0, 255, 0)>>))],
          [name |-> <<"T", "r", "a", "c", "e", "r", "s", " ", "B">>,
           value |-> ConfAnimation(<<"v", "e", "r", "t", "i", "c", "a", "l", "P", "u", "l", "s", "e", "W", "i", "t", "h", "T", "r", "a", "c", "e", "r", "s">>,
                                   Arr(<<Num(25), Color(255, 0, 0), Color(0, 0, 255),
                                         Color(0, 255, 0)>>))]>>,
     activeAnimations |-> <<<<"T", "r", "a", "c", "e", "r", "s", " ", "A">>, <<"T", "r", "a", "c", "e", "r", "s", " ", "B">>>>]

\* a kiianiconf.json whose active animation names a generator that is not there
GhostConf ==
    [animations |->
        UserConf.animations \o
            <<[name |-> <<"G", "h", "o", "s", "t">>, value |-> ConfAnimation(<<"n", "o", "p", "e">>, Undefined)]>>,
     activeAnimations |-> <<<<"D", "o", "d", "g", "y", " ", "5">>, <<"G", "h", "o", "s", "t">>>>]

---------------------------------------------------------------------------
(* main() *)

All == <<"a", "l", "l">>
Conf == <<"c", "o", "n", "f">>

\* properties every object inherits from Object.prototype
InheritedNames == {<<"t", "o", "S", "t", "r", "i", "n", "g">>}

\* generators[name] is truthy
HasGenerator(name) ==
    (\E k \in 1..Len(GeneratorNames) : GeneratorNames[k] = name) \/ name \in InheritedNames

\* generators[name] called with params and the given "this"
CallGenerator(name, params, this) ==
    IF name \in InheritedNames
    THEN Str(<<"[", "o", "b", "j", "e", "c", "t", " ">> \o this \o <<"]">>)
    ELSE generators(name, params)

\* Math.max folded over a set of numbers
Largest(S) == CHOOSE m \in S : \A x \in S : MathMax(m, x) = m

\* the values Math.random() has still to return after n of them were drawn
Drawn(n) == [k \in 1..Len(random) |-> random[((k - 1 + n) % Len(random)) + 1]]

\* the keys that trigger the animations: 0x25-0x30, 0x37-0x41, 0x47-0x4F
keyCodes ==
    [k \in 1..32 |-> ScanCode(IF k <= 12 THEN 36 + k ELSE IF k <= 23 THEN 42 + k ELSE 47 + k)]

\* the i-th key of the matrix, whatever its code
TriggerKeyByPosition(matrix, i) == IF i <= Len(matrix) THEN i ELSE 0

\* triggerKeys[i - 1]: the position in the matrix of the last key with the i-th
\* code, 0 when the matrix has none
TriggerKey(matrix, i) ==
    IF i <= Len(keyCodes) /\ \E k \in 1..Len(matrix) : matrix[k].code = Str(keyCodes[i])
    THEN CHOOSE k \in 1..Len(matrix) :
            /\ matrix[k].code = Str(keyCodes[i])
            /\ \A j \in k + 1..Len(matrix) : matrix[j].code # Str(keyCodes[i])
    ELSE 0

\* the triggers of the key that starts animation i and stops the others
Triggers(animNames, i) ==
    [a \in 1..Len(animNames) |->
        LET ss == IF a = i THEN <<"s", "t", "a", "r", "t">> ELSE <<"s", "t", "o", "p">>
        IN  [type |-> Str(<<"a", "n", "i", "m", "a", "t", "i", "o", "n">>),
             label |-> Str(ss \o <<" ", "'">> \o animNames[a] \o <<"'", " ", "a", "n", "i", "m", "a", "t", "i", "o", "n">>),
             action |-> Str(<<"A", "[">> \o animNames[a] \o <<"]", "(">> \o ss \o <<")">>)]]

\* the dates "new Date()" returns
Dates ==
    {[yyyy |-> 2017, mm |-> 6, dd |-> 9, HH |-> 7, MM |-> 5, ss |-> 3],
     [yyyy |-> 2018, mm |-> 12, dd |-> 31, HH |-> 23, MM |-> 59, ss |-> 59]}

\* dateFormat(theDate, "yyyy-mm-dd") and dateFormat(theDate, "yyyymmdd-HHMMss")
DateDashed(d) == Padded(d.yyyy, 4) \o <<"-">> \o Padded(d.mm, 2) \o <<"-">> \o Padded(d.dd, 2)
DateStamp(d) ==
    Padded(d.yyyy, 4) \o Padded(d.mm, 2) \o Padded(d.dd, 2) \o <<"-">>
        \o Padded(d.HH, 2) \o Padded(d.MM, 2) \o Padded(d.ss, 2)

Run(argv, ktype, kllFile, conf, seed) ==
    [argv |-> argv, ktype |-> ktype, kll |-> kllFile, conf |-> conf, random |-> seed]

\* the command lines and directories main() is run on
Scenarios ==
    {Run(Str(GeneratorNames[k]), KTypeConfig, KTypeGeometry, Undefined, <<0>>) :
        k \in 1..Len(GeneratorNames)}
    \cup {Run(Str(<<"d", "o", "d", "g", "y", "P", "i", "x", "e", "l">>), KTypeConfig, KTypeGeometry, Undefined, seed) :
            seed \in {<<RandomDen - 1>>, <<0, RandomDen - 1, RandomDen \div 2>>}}
    \cup {Run(Str(name), SmallConfig, SmallGeometry, Undefined, <<0, RandomDen \div 2>>) :
            name \in {<<"w", "h", "i", "t", "e", "N", "o", "i", "s", "e">>, <<"k", "e", "y", "G", "r", "o", "u", "p", "C", "y", "c", "l", "e", "r">>, <<"d", "o", "d", "g", "y", "P", "i", "x", "e", "l">>, All,
                      <<" ", "r", "e", "d", "P", "u", "l", "s", "e", " ">>, <<"t", "o", "S", "t", "r", "i", "n", "g">>}}
    \cup {Run(Str(Conf), KTypeConfig, KTypeGeometry, Undefined, <<0>>)}
    \cup {Run(Str(Conf), SmallConfig, SmallGeometry, conf, <<RandomDen \div 2>>) :
            conf \in {UserConf, BrokenConf, GhostConf, TwiceConf}}
    \cup {Run(argv, SmallConfig, SmallGeometry, Undefined, <<0>>) :
            argv \in {Undefined, Str(<<" ", " ">>), Str(<<"n", "o", "p", "e">>)}}
    \cup {Run(Str(<<"r", "e", "d", "P", "u", "l", "s", "e">>), TwoKeyConfig, SmallGeometry, Undefined, <<0>>),
          Run(Str(<<"r", "e", "d", "P", "u", "l", "s", "e">>), RerunConfig, SmallGeometry, Undefined, <<0>>),
          Run(Str(<<"r", "e", "d", "P", "u", "l", "s", "e">>), RemappedConfig, SmallGeometry, Undefined, <<0>>),
          Run(Str(<<"r", "e", "d", "P", "u", "l", "s", "e">>), SmallConfig, EmptyGeometry, Undefined, <<0>>),
          Run(Str(<<"r", "e", "d", "P", "u", "l", "s", "e">>), Undefined, SmallGeometry, Undefined, <<0>>),
          Run(Str(<<"r", "e", "d", "P", "u", "l", "s", "e">>), SmallConfig, Undefined, Undefined, <<0>>)}

---------------------------------------------------------------------------
(* The steps of main() *)

Init ==
    /\ \E s \in Scenarios :
          /\ generator = (IF Truthy(s.argv) THEN Str(Trim(s.argv.v)) ELSE s.argv)
          /\ files = [ktype |-> s.ktype, kll |-> s.kll, conf |-> s.conf, out |-> <<>>]
          /\ random = s.random
    /\ call = NoCall
    /\ ret = Undefined
    /\ Globals

\* "If no generator is provided, then bail out."
CheckGenerator ==
    /\ pc = "start"
    /\ IF ~Truthy(generator)
          \/ (~HasGenerator(generator.v) /\ generator.v # All /\ generator.v # Conf)
       THEN /\ console' = console \o
                    << <<Str(<<"U", "n", "k", "n", "o", "w", "n", " ", "g", "e", "n", "e", "r", "a", "t", "o", "r", ":", " ">>), generator>>,
                       <<Concat(Str(<<"E", "i", "t", "h", "e", "r", " ", "s", "p", "e", "c", "i", "f", "y", " ", "'", "a", "l", "l", "'", ",", " ", "'", "c", "o", "n", "f", "'", ",", " ", "o", "r", " ", "u", "s", "e", " ", "o", "n", "e", " ", "o", "f", " ", "t", "h", "e", " ", "f", "o", "l", "l", "o", "w", "i", "n", "g", " ", "g", "e", "n", "e", "r", "a", "t", "o", "r", "s", ":">>),
                                Join(<<Str(<<>>)>> \o [k \in 1..Len(GeneratorNames) |->
                                                          Str(GeneratorNames[k])],
                                     <<"\n", "\t">>))>> >>
            /\ pc' = "done"
       ELSE /\ pc' = "load"
            /\ UNCHANGED console
    /\ UNCHANGED <<random, callVars, files, generator, json, kll, maxRow, maxCol,
                   blankLeds, keyedLeds, ledIdByScanCode, baseLeds, iter>>

\* reads KType-Standard.json, defaults its animations and sorts the LEDs; without
\* the file, json stays undefined and "json.animations" throws
LoadConfig ==
    /\ pc = "load"
    /\ IF files.ktype = Undefined
       THEN /\ console' = Append(console, <<Str(<<"K", "T", "y", "p", "e", "-", "S", "t", "a", "n", "d", "a", "r", "d", ".", "j", "s", "o", "n", " ", "n", "o", "t", " ", "f", "o", "u", "n", "d">>)>>)
            /\ pc' = "threw"
            /\ UNCHANGED <<json, blankLeds, keyedLeds, ledIdByScanCode>>
       ELSE LET leds == files.ktype.leds
                codes == {JSToString(leds[k].scanCode) : k \in 1..Len(leds)}
            IN  /\ json' = [files.ktype EXCEPT
                               !.animations = IF Truthy(@) THEN @ ELSE Obj(<<>>)]
                /\ keyedLeds' = SelectSeq(leds, LAMBDA led : Truthy(led.scanCode))
                /\ blankLeds' = SelectSeq(leds, LAMBDA led : ~Truthy(led.scanCode))
                /\ ledIdByScanCode' =
                      [code \in codes |->
                          leds[CHOOSE k \in 1..Len(leds) :
                                  /\ JSToString(leds[k].scanCode) = code
                                  /\ \A j \in k + 1..Len(leds) :
                                        JSToString(leds[j].scanCode) # code].id]
                /\ pc' = "geometry"
                /\ UNCHANGED console
    /\ UNCHANGED <<random, callVars, files, generator, kll, maxRow, maxCol, baseLeds,
                   iter>>

\* reads kll.json and takes the largest row and column; without the file, kll
\* stays undefined and "kll.PixelIds" throws
LoadGeometry ==
    /\ pc = "geometry"
    /\ IF files.kll = Undefined
       THEN /\ console' = Append(console, <<Str(<<"k", "l", "l", ".", "j", "s", "o", "n", " ", "n", "o", "t", " ", "f", "o", "u", "n", "d">>)>>)
            /\ pc' = "threw"
            /\ UNCHANGED <<kll, maxRow, maxCol>>
       ELSE LET px == files.kll.PixelIds
            IN  /\ kll' = files.kll
                /\ maxRow' = Largest({maxRow} \cup {px[k].value.Row : k \in 1..Len(px)})
                /\ maxCol' = Largest({maxCol} \cup {px[k].value.Col : k \in 1..Len(px)})
                /\ pc' = "generate"
                /\ UNCHANGED console
    /\ UNCHANGED <<random, callVars, files, generator, json, blankLeds, keyedLeds,
                   ledIdByScanCode, baseLeds, iter>>

\* animOrig[generator] = generators[generator]()
RunGenerator ==
    /\ pc = "generate"
    /\ generator.v # All
    /\ generator.v # Conf
    /\ json' = [json EXCEPT !.animations.v =
                   Put(@, generator.v, CallGenerator(generator.v, <<>>, <<"O", "b", "j", "e", "c", "t">>))]
    /\ random' = Drawn(GeneratorDraws(generator.v, <<>>))
    /\ baseLeds' = GeneratorLeaves(generator.v, <<>>, Lookup(json'.animations.v, generator.v))
    /\ pc' = "finish"
    /\ UNCHANGED <<callVars, files, console, generator, kll, maxRow, maxCol, blankLeds,
                   keyedLeds, ledIdByScanCode, iter>>

\* one round of "for (var g in generators)"
RunAll ==
    /\ pc = "generate"
    /\ generator.v = All
    /\ iter < Len(GeneratorNames)
    /\ LET g == GeneratorNames[iter + 1]
       IN  IF \A k \in 1..Len(g) : g[k] # "!"
           THEN /\ json' = [json EXCEPT !.animations.v =
                               Put(@, g, CallGenerator(g, <<>>, <<"O", "b", "j", "e", "c", "t">>))]
                /\ random' = Drawn(GeneratorDraws(g, <<>>))
                /\ baseLeds' = GeneratorLeaves(g, <<>>, Lookup(json'.animations.v, g))
           ELSE UNCHANGED <<json, random, baseLeds>>
    /\ iter' = iter + 1
    /\ pc' = IF iter + 1 = Len(GeneratorNames) THEN "finish" ELSE pc
    /\ UNCHANGED <<callVars, files, console, generator, kll, maxRow, maxCol, blankLeds,
                   keyedLeds, ledIdByScanCode>>

\* reads kiianiconf.json, or writes the demo configuration when there is none
LoadConf ==
    /\ pc = "generate"
    /\ generator.v = Conf
    /\ files' = [files EXCEPT !.conf = IF @ = Undefined THEN DEMO_CONF ELSE @]
    /\ pc' = IF Len(files'.conf.activeAnimations) = 0 THEN "finish" ELSE "conf"
    /\ UNCHANGED <<random, callVars, console, generator, json, kll, maxRow, maxCol,
                   blankLeds, keyedLeds, ledIdByScanCode, baseLeds, iter>>

\* one round of the loop of generateFromConf; an active animation that is not
\* defined, or that names no generator, throws
GenerateFromConf ==
    /\ pc = "conf"
    /\ LET confData == files.conf
           animName == confData.activeAnimations[iter + 1]
           anim == Lookup(confData.animations, animName)
           animNameToUse == RemoveNonWord(ReplaceSpaces(animName))
       IN  IF anim = Undefined \/ ~HasGenerator(anim.generator.v)
           THEN /\ pc' = "threw"
                /\ UNCHANGED <<json, random, baseLeds, iter>>
           ELSE LET params == IF Truthy(anim.params) THEN anim.params.v ELSE <<>>
                    this == IF Truthy(anim.params) THEN <<"N", "u", "l", "l">> ELSE <<"U", "n", "d", "e", "f", "i", "n", "e", "d">>
                IN  /\ json' = [json EXCEPT !.animations.v =
                                   Put(@, animNameToUse,
                                       CallGenerator(anim.generator.v, params, this))]
                    /\ random' = Drawn(GeneratorDraws(anim.generator.v, params))
                    /\ baseLeds' = GeneratorLeaves(anim.generator.v, params,
                                                   Lookup(json'.animations.v, animNameToUse))
                    /\ iter' = iter + 1
                    /\ pc' = IF iter + 1 = Len(confData.activeAnimations)
                             THEN "finish" ELSE pc
    /\ UNCHANGED <<callVars, files, console, generator, kll, maxRow, maxCol, blankLeds,
                   keyedLeds, ledIdByScanCode>>

\* maps the animations to the trigger keys, changes the header and writes the
\* config to json_out; an animation without a trigger key throws
WriteConfig ==
    /\ pc = "finish"
    /\ LET animNames == Keys(json.animations.v)
           count == Len(animNames)
           matrix == json.matrix
           iKey(i) == TriggerKey(matrix, i)
           none == [key |-> Str(<<"#", ":", "N", "o", "n", "e">>), label |-> Str(<<"N", "O", "N", "E">>)]
           newKey(k, i) ==
               [matrix[k] EXCEPT
                   !.layers = Put(@, <<"1">>, none),
                   !.triggers = Obj(<<[name |-> <<"1">>, value |-> Triggers(animNames, i)]>>)]
           aniMappingText ==
               <<Str(<<"A", "n", "i", "m", "a", "t", "i", "o", "n", "s", " ", "a", "r", "e", " ", "m", "a", "p", "p", "e", "d", " ", "t", "o", " ", "t", "h", "e", " ", "f", "o", "l", "l", "o", "w", "i", "n", "g", " ", "k", "e", "y", "s", ":">>)>> \o
               [i \in 1..count |->
                   Concat(Concat(Lookup(matrix[iKey(i)].layers, <<"0">>).key, Str(<<":", " ">>)),
                          Str(animNames[i]))]
       IN  IF \E i \in 1..count :
                 iKey(i) = 0 \/ ~HasKey(matrix[iKey(i)].layers, <<"0">>)
           THEN /\ pc' = "threw"
                /\ UNCHANGED <<json, files, console>>
           ELSE \E theDate \in Dates :
                  LET header ==
                          Put(Put(Put(Put(json.header, <<"A", "u", "t", "h", "o", "r">>,
                                          Str(<<"i", "n", "t", "a", "f", "o", "n", " ", "(", "r", "y", "a", "n", "-", "t", "o", "d", "d", "-", "r", "y", "a", "n", ")", " ">>
                                              \o Padded(theDate.yyyy, 4))),
                                      <<"D", "a", "t", "e">>, Str(DateDashed(theDate))),
                                  <<"L", "a", "y", "o", "u", "t">>,
                                  Concat(Concat(Lookup(json.header, <<"L", "a", "y", "o", "u", "t">>),
                                                Str(<<" ", "+", " ", "K", "i", "i", "a", "n", "i", "g", "e", "n", " ">>)),
                                         Str(Capitalize(generator.v)))),
                              <<"K", "i", "i", "a", "n", "i", "g", "e", "n", "K", "e", "y", "M", "a", "p">>, Arr(aniMappingText))
                      newFileName == <<"K", "T", "y", "p", "e", "-">> \o DateStamp(theDate) \o <<"-">>
                                         \o generator.v
                  IN  /\ json' = [json EXCEPT
                                     !.header = header,
                                     !.matrix =
                                        [k \in 1..Len(matrix) |->
                                            IF \E i \in 1..count : iKey(i) = k
                                            THEN newKey(k, CHOOSE i \in 1..count :
                                                              iKey(i) = k)
                                            ELSE matrix[k]]]
                      /\ files' = [files EXCEPT !.out =
                                      Append(@, [path |-> <<".", "/", "j", "s", "o", "n", "_", "o", "u", "t", "/">> \o newFileName
                                                              \o <<".", "j", "s", "o", "n">>,
                                                 content |-> json'])]
                      /\ console' = console \o
                            << <<Concat(Str(<<"\n">>),
                                        Join(aniMappingText, <<"\n", "\t">>))>>,
                               <<Str(<<"\n">> \o <<"N", "e", "w", " ", "c", "o", "n", "f", "i", "g", " ", "j", "s", "o", "n", " ", "h", "a", "s", " ", "b", "e", "e", "n", " ", "s", "a", "v", "e", "d", " ", "t", "o", " ", "f", "i", "l", "e", ":", " ">>
                                         \o newFileName)>> >>
                      /\ pc' = "done"
    /\ UNCHANGED <<random, callVars, generator, kll, maxRow, maxCol, blankLeds,
                   keyedLeds, ledIdByScanCode, baseLeds, iter>>

Next ==
    \/ CheckGenerator
    \/ LoadConfig
    \/ LoadGeometry
    \/ RunGenerator
    \/ RunAll
    \/ LoadConf
    \/ GenerateFromConf
    \/ WriteConfig

Spec == Init /\ [][Next]_vars

---------------------------------------------------------------------------
(* Properties of the bleed engine (checked under SpecBleed)                *)

InRange(color) == \A i \in 1..Len(color.v) : color.v[i].v \in 0..255

Linear == {Undefined, Fn("linearInterpolate")}

\* the call used the linear interpolation (the only one of the first version)
LinearCall ==
    call.f \in {"colorBleedOld", "multiColorBleedOld"} \/ call.interpolateFunc \in Linear

AtLeastTwo(steps) == IsNumber(steps) /\ steps.d = 1 /\ steps.v >= 2

RECURSIVE ChannelsInRange(_)
ChannelsInRange(x) ==
    CASE x.t = "number" -> x.d = 1 /\ x.v \in 0..255
      [] x.t = "array" -> \A i \in 1..Len(x.v) : ChannelsInRange(x.v[i])
      [] OTHER -> TRUE

\* C1: for colours with channels in 0..255 and an integer steps >= 2, colorBleed
\* without a step index and with the linear interpolation returns steps + 1
\* colours, the first equal to the origin and the last to the destination.
C1_BleedEndpoints ==
    (/\ call.f \in {"colorBleed", "colorBleedOld"}
     /\ LinearCall
     /\ IsUndefined(call.step)
     /\ AtLeastTwo(call.steps)
     /\ InRange(call.origColor)
     /\ InRange(call.destColor))
    => /\ IsArray(ret)
       /\ Len(ret.v) = call.steps.v + 1
       /\ ret.v[1] = call.origColor
       /\ ret.v[call.steps.v + 1] = call.destColor

C1_Witness ==
    /\ call.f = "colorBleed"
    /\ IsUndefined(call.interpolateFunc)
    /\ IsUndefined(call.step)
    /\ call.steps = Num(7)
    /\ call.origColor = Blue
    /\ call.destColor = Dusk
    /\ Len(ret.v) = 8
    /\ ret.v[1] = Blue
    /\ ret.v[8] = Dusk

\* C2: every channel of every colour returned by colorBleed and multiColorBleed
\* is an integer in 0..255, whatever the input channels, the step count and the
\* interpolation function.
C2_ChannelsInRange ==
    call.f \in {"colorBleed", "colorBleedOld", "multiColorBleed", "multiColorBleedOld"}
    => ChannelsInRange(ret)

C2_Witness ==
    /\ call.f = "multiColorBleed"
    /\ call.interpolateFunc = Fn("randomInterpolate")
    /\ AtLeastTwo(call.frameCountPerColor)
    /\ call.colorValues[1] = Wild
    /\ random = <<0>>
    /\ ret.v[1] = Color(0, 255, 128)

\* C3 as claimed: with three colours and an integer n >= 2, multiColorBleed
\* returns 3 * n - 3 colours.
C3_Original ==
    (/\ call.f \in {"multiColorBleed", "multiColorBleedOld"}
     /\ Len(call.colorValues) = 3
     /\ AtLeastTwo(call.frameCountPerColor))
    => IsArray(ret) /\ Len(ret.v) = 3 * call.frameCountPerColor.v - 3

\* C3 amended: with three colours and an integer n >= 2, multiColorBleed returns
\* exactly 3 * n colours; n = 4 with black, white and blue yields 12.
C3_LengthThreeN ==
    (/\ call.f \in {"multiColorBleed", "multiColorBleedOld"}
     /\ Len(call.colorValues) = 3
     /\ AtLeastTwo(call.frameCountPerColor))
    => /\ IsArray(ret)
       /\ Len(ret.v) = 3 * call.frameCountPerColor.v
       /\ (call.frameCountPerColor = Num(4) /\ call.colorValues = <<Black, White, Blue>>)
          => Len(ret.v) = 12

C3_Witness ==
    /\ call.f = "multiColorBleed"
    /\ call.frameCountPerColor = Num(4)
    /\ call.colorValues = <<Black, White, Blue>>
    /\ Len(ret.v) = 12

\* C4: multiColorBleed treats its k >= 1 colours as a closed cycle without
\* duplicated boundaries: for n >= 2, element j * n + s of the result (s < n) is
\* element s of the bleed from colour j to colour (j + 1) mod k, the result holds
\* nothing else, and a single colour is repeated.
C4_ClosedCycle ==
    (/\ call.f = "multiColorBleed"
     /\ call.interpolateFunc \in Linear
     /\ AtLeastTwo(call.frameCountPerColor))
    => LET n == call.frameCountPerColor.v
           k == Len(call.colorValues)
       IN  /\ IsArray(ret)
           /\ Len(ret.v) = k * n
           /\ \A j \in 0..k - 1, s \in 0..n - 1 :
                ret.v[j * n + s + 1] =
                    colorBleed(call.colorValues[j + 1], call.colorValues[((j + 1) % k) + 1],
                               call.frameCountPerColor, Num(s), call.interpolateFunc, 0)
           /\ (k = 1 /\ InRange(call.colorValues[1]))
              => \A i \in 1..n : ret.v[i] = call.colorValues[1]

C4_Witness ==
    /\ call.f = "multiColorBleed"
    /\ IsUndefined(call.interpolateFunc)
    /\ call.frameCountPerColor = Num(3)
    /\ call.colorValues = <<White, Blue, Dusk>>
    /\ Len(ret.v) = 9
    /\ ret.v[1] = White
    /\ ret.v[4] = Blue
    /\ ret.v[7] = Dusk
    /\ ret.v[9] = colorBleed(Dusk, White, Num(3), Num(2), Undefined, 0)

ClampChannel(x) == IF x < 0 THEN 0 ELSE IF x > 255 THEN 255 ELSE x

\* each channel round((c1 + c2) / 2), a half rounded up, clamped to 0..255
Midpoint(c1, c2) ==
    Arr([i \in 1..Len(c1.v) |-> Num(ClampChannel((c1.v[i].v + c2.v[i].v + 1) \div 2))])

FullBleed ==
    IF call.f = "colorBleed"
    THEN colorBleed(call.origColor, call.destColor, call.steps, Undefined,
                    call.interpolateFunc, 0)
    ELSE colorBleedOld(call.origColor, call.destColor, call.steps, Undefined)

\* C5: with steps unset or below 2, colorBleed returns the single midpoint colour
\* whatever step index was passed; with steps >= 2 and a step index in 0..steps it
\* returns only the colour at that index, and without a step index the full
\* sequence.
C5_FallbackAndIndex ==
    (call.f \in {"colorBleed", "colorBleedOld"} /\ LinearCall)
    => /\ (IsUndefined(call.steps) \/ LessThan(call.steps, 2))
          => ret = Midpoint(call.origColor, call.destColor)
       /\ (/\ AtLeastTwo(call.steps)
           /\ IsNumber(call.step)
           /\ call.step.v \in 0..call.steps.v)
          => /\ IsArray(ret)
             /\ Len(ret.v) = 3
             /\ \A i \in 1..3 : IsNumber(ret.v[i])
             /\ ret = FullBleed.v[call.step.v + 1]
       /\ (AtLeastTwo(call.steps) /\ IsUndefined(call.step))
          => /\ IsArray(ret)
             /\ Len(ret.v) = call.steps.v + 1
             /\ \A i \in 1..Len(ret.v) : IsArray(ret.v[i]) /\ Len(ret.v[i].v) = 3

C5_Witness ==
    /\ call.f = "colorBleed"
    /\ call.steps = Num(0)
    /\ call.step = Num(5)
    /\ IsUndefined(call.interpolateFunc)
    /\ call.origColor = Black
    /\ call.destColor = White
    /\ ret = Color(128, 128, 128)

IsColor(x) ==
    /\ IsArray(x)
    /\ Len(x.v) = 3
    /\ \A i \in 1..3 : IsNumber(x.v[i]) /\ x.v[i].d = 1 /\ x.v[i].v \in 0..255

\* C6 as claimed: with a step count of 1, zero or below, colorBleed returns a
\* 3-channel colour (or a sequence of them) and multiColorBleed returns a sequence
\* whose every element is a 3-channel colour with channels in 0..255.
C6_Original ==
    /\ (/\ call.f \in {"colorBleed", "colorBleedOld"}
        /\ IsNumber(call.steps)
        /\ call.steps.v < 2)
       => \/ IsColor(ret)
          \/ IsArray(ret) /\ \A i \in 1..Len(ret.v) : IsColor(ret.v[i])
    /\ (/\ call.f \in {"multiColorBleed", "multiColorBleedOld"}
        /\ IsNumber(call.frameCountPerColor)
        /\ call.frameCountPerColor.v < 2)
       => IsArray(ret) /\ \A i \in 1..Len(ret.v) : IsColor(ret.v[i])

---------------------------------------------------------------------------
(* Properties of the pixel command encoder (checked under SpecPixel)       *)

Given(x) == x.t \notin {"undefined", "null"}

\* C7: getPixel returns "P[" + the address parts joined by "," + "](" + r + ","
\* + g + "," + b + ")", the parts being "r:" + row, "c:" + col and the bare id,
\* in this order, each only if given, and a channel not given written as 0.
C7_PixelFormat ==
    call.f = "getPixel"
    => LET rowPart == IF Given(call.row)
                      THEN <<"r", ":">> \o JSToString(call.row) ELSE <<>>
           colPart == IF Given(call.col)
                      THEN <<"c", ":">> \o JSToString(call.col) ELSE <<>>
           idPart == IF Given(call.pixelNumber) THEN JSToString(call.pixelNumber) ELSE <<>>
           comma(a, b) == IF a # <<>> /\ b # <<>> THEN a \o <<",">> \o b ELSE a \o b
           channel(x) == IF Given(x) THEN JSToString(x) ELSE <<"0">>
       IN  /\ ret = Str(<<"P", "[">> \o comma(comma(rowPart, colPart), idPart)
                        \o <<"]", "(">> \o channel(call.r) \o <<",">> \o channel(call.g)
                        \o <<",">> \o channel(call.b) \o <<")">>)
           /\ (/\ call.row = Num(2) /\ call.col = Num(3) /\ ~Given(call.pixelNumber)
               /\ call.r = Num(10) /\ call.g = Num(20) /\ call.b = Num(30))
              => ret.v = <<"P", "[", "r", ":", "2", ",", "c", ":", "3", "]", "(",
                           "1", "0", ",", "2", "0", ",", "3", "0", ")">>
           /\ (/\ ~Given(call.row) /\ ~Given(call.col) /\ call.pixelNumber = Num(42)
               /\ call.r = Num(0) /\ call.g = Num(0) /\ call.b = Num(255))
              => ret.v = <<"P", "[", "4", "2", "]", "(", "0", ",", "0", ",",
                           "2", "5", "5", ")">>

C7_Witness ==
    /\ call.f = "getPixel"
    /\ call.row = Num(2)
    /\ call.col = Num(3)
    /\ IsUndefined(call.pixelNumber)
    /\ call.r = Num(10)
    /\ IsNull(call.g)
    /\ call.b = Num(30)
    /\ ret.v = <<"P", "[", "r", ":", "2", ",", "c", ":", "3", "]", "(",
                 "1", "0", ",", "0", ",", "3", "0", ")">>

---------------------------------------------------------------------------
(* Properties of the generators (checked under Spec)                       *)

\* the position of the first c in cs at or after from, 0 when there is none
RECURSIVE IndexOf(_, _, _)
IndexOf(cs, c, from) ==
    IF from > Len(cs) THEN 0
    ELSE IF cs[from] = c THEN from ELSE IndexOf(cs, c, from + 1)

\* the parts of an address, which a comma separates
RECURSIVE Parts(_)
Parts(cs) ==
    LET k == IndexOf(cs, ",", 1)
    IN  IF k = 0 THEN <<cs>> ELSE <<SubSeq(cs, 1, k - 1)>> \o Parts(SubSeq(cs, k + 1, Len(cs)))

IsIndex(cs) == cs # <<>> /\ \A k \in 1..Len(cs) : IsDigitChar(cs[k])

IsPercentage(cs) ==
    /\ Len(cs) >= 2
    /\ cs[Len(cs)] = "%"
    /\ LET body == SubSeq(cs, 1, Len(cs) - 1)
       IN  IsIndex(IF Head(body) = "-" THEN Tail(body) ELSE body)

IsPart(cs, prefix) == Len(cs) > 2 /\ SubSeq(cs, 1, 2) = <<prefix, ":">>

PartValue(cs) == SubSeq(cs, 3, Len(cs))

\* exactly one addressing mode: an identifier alone, or a row and/or a column that
\* are all grid indices or all percentages
OneMode(address) ==
    LET parts == Parts(address)
        values == {PartValue(parts[k]) : k \in 1..Len(parts)}
    IN  \/ Len(parts) = 1 /\ IsIndex(parts[1])
        \/ /\ \/ Len(parts) = 1 /\ (IsPart(parts[1], "r") \/ IsPart(parts[1], "c"))
              \/ Len(parts) = 2 /\ IsPart(parts[1], "r") /\ IsPart(parts[2], "c")
           /\ \/ \A v \in values : IsIndex(v)
              \/ \A v \in values : IsPercentage(v)

\* the animations in the config when the generators have run
Generated ==
    IF pc = "finish"
    THEN {a \in {json.animations.v[k] : k \in 1..Len(json.animations.v)} :
             "frames" \in DOMAIN a.value}
    ELSE {}

GeneratedBy(names) == {a \in Generated : a.name \in names}

FramesOf(a) == {a.value.frames.v[k].v : k \in 1..Len(a.value.frames.v)}

\* the addresses of the pixel commands of a frame string: what stands between
\* each "[" and the "]" after it
AddressesOf(frame) ==
    {SubSeq(frame, a + 1, IndexOf(frame, "]", a) - 1) :
        a \in {k \in 1..Len(frame) : frame[k] = "["}}

\* C8 as the spec states it: every pixel command of every frame of every generated
\* animation populates exactly one addressing mode. The script violates it.
C8_Original ==
    \A a \in Generated : \A frame \in FramesOf(a) :
        \A address \in AddressesOf(frame) : OneMode(address)

\* a grid pixel as the configurator reads it: P[r:<row>,c:<col>](<r>,<g>,<b>)
GridPixel(row, col, channels) ==
    <<"P", "[", "r", ":">> \o NatToString(row) \o <<",", "c", ":">> \o NatToString(col) \o <<"]", "(">>
        \o NatToString(channels[1]) \o <<",">> \o NatToString(channels[2]) \o <<",">>
        \o NatToString(channels[3]) \o <<")">>

\* the names under which the runs store an animation of dodgyPixel, with the
\* channels of the highlight and the background each of them asks for
DodgyRuns ==
    {[name |-> <<"d", "o", "d", "g", "y", "P", "i", "x", "e", "l">>, hi |-> <<255, 255, 255>>, bg |-> <<25, 25, 25>>],
     [name |-> <<"D", "o", "d", "g", "y", "_", "5">>, hi |-> <<0, 0, 0>>, bg |-> <<25, 25, 25>>],
     [name |-> <<"I", "c", "e", "d", "_", "C", "o", "o", "l", "y">>, hi |-> <<204, 204, 204>>, bg |-> <<0, 0, 255>>]}

\* C9 as the spec states it: dodgyPixel invoked with 5 returns 5 frames plus 1
\* background frame.
C9_Original ==
    \A a \in GeneratedBy({<<"D", "o", "d", "g", "y", "_", "5">>}) : Len(a.value.frames.v) = 5 + 1

\* C9, amended: dodgyPixel takes no frame count. Whatever it is called with, also
\* with 5, it returns one background frame of (maxRow + 1) * (maxCol + 1) pixels and
\* then 50 blinks, each a frame of one pixel in the highlight colour and a frame of
\* the same pixel in the background colour: 101 frames, and every channel is a
\* channel of the two colours (0 where the colour gives none).
C9_FixedFrameCount ==
    \A run \in DodgyRuns : \A a \in GeneratedBy({run.name}) :
        LET frames == a.value.frames.v
        IN  /\ Len(frames) = 1 + 2 * 50
            /\ frames[1] =
                  Join([k \in 1..(maxRow + 1) * (maxCol + 1) |->
                           Str(GridPixel((k - 1) \div (maxCol + 1),
                                         (k - 1) % (maxCol + 1), run.bg))], <<",">>)
            /\ \A n \in 1..50 :
                  \E row \in 0..maxRow, col \in 0..maxCol :
                      /\ frames[2 * n].v = GridPixel(row, col, run.hi)
                      /\ frames[2 * n + 1].v = GridPixel(row, col, run.bg)

C9_Witness == GeneratedBy({<<"D", "o", "d", "g", "y", "_", "5">>}) # {} /\ maxRow = 1 /\ maxCol = 1

WhiteNoiseRuns == {<<"w", "h", "i", "t", "e", "N", "o", "i", "s", "e">>, <<"N", "o", "i", "s", "e", "_", "5">>, <<"W", "h", "i", "t", "e", "_", "N", "o", "i", "s", "e">>}

\* C10 as the spec states it: every frame of whiteNoise colours the pixel
\* identifiers 1..N and no other, N being the number of LEDs of the loaded config.
\* The script violates it.
C10_Original ==
    \A a \in GeneratedBy(WhiteNoiseRuns) : \A frame \in FramesOf(a) :
        AddressesOf(frame) = {NatToString(k) : k \in 1..Len(json.leds)}


---------------------------------------------------------------------------
(* Calls of verticalPulseWithTracers *)

\* stepsPerColor: not given, null, or a count
TracerStepCounts == {Undefined, Null} \cup {Num(n) : n \in 1..MaxTracerSteps}

\* the k-th colour passed: red, blue, green, red, ...
TracerPalette(k) ==
    Color(IF k % 3 = 1 THEN 255 ELSE 0, IF k % 3 = 0 THEN 255 ELSE 0,
          IF k % 3 = 2 THEN 255 ELSE 0)

\* the colours passed: none, or the first n of the palette
TracerColorLists == {[k \in 1..n |-> TracerPalette(k)] : n \in 0..MaxTracerColors}

TracerName == <<"v", "e", "r", "t", "i", "c", "a", "l", "P", "u", "l", "s", "e", "W", "i", "t", "h", "T", "r", "a", "c", "e", "r", "s">>

InitTracer ==
    /\ random = <<0>>
    /\ call = NoCall
    /\ ret = Undefined
    /\ generator = Undefined
    /\ files = NoFiles
    /\ Globals

CallVerticalPulseWithTracers ==
    /\ call = NoCall
    /\ \E stepsPerColor \in TracerStepCounts, colorValues \in TracerColorLists :
          /\ call' = [f |-> "verticalPulseWithTracers", stepsPerColor |-> stepsPerColor,
                      colorValues |-> colorValues]
          /\ ret' = generators(TracerName, <<stepsPerColor>> \o colorValues)
          /\ baseLeds' = GeneratorLeaves(TracerName, <<stepsPerColor>> \o colorValues, ret')
    /\ UNCHANGED <<random, pc, files, console, generator, json, kll, maxRow, maxCol,
                   blankLeds, keyedLeds, ledIdByScanCode, iter>>

NextTracer == CallVerticalPulseWithTracers

SpecTracer == InitTracer /\ [][NextTracer]_vars

---------------------------------------------------------------------------
(* Unknown generator names *)

\* name is a generator of the registry "generators"
Registered(name) == \E k \in 1..Len(GeneratorNames) : GeneratorNames[k] = name

\* the generator names of the defined active animations of kiianiconf.json, when
\* the run is a "conf" run on a directory that has the file
ConfRequests ==
    IF Truthy(generator) /\ generator.v = Conf /\ files.conf # Undefined
    THEN {a.generator.v :
            a \in {Lookup(files.conf.animations, files.conf.activeAnimations[k]) :
                      k \in 1..Len(files.conf.activeAnimations)} \ {Undefined}}
    ELSE {}

\* the run asks for a generator that is not registered: none at all, one on the
\* command line, or one named by an active animation of the conf file
UnknownRequested ==
    \/ ~Truthy(generator)
    \/ Truthy(generator) /\ generator.v \notin {All, Conf} /\ ~Registered(generator.v)
    \/ \E g \in ConfRequests : ~Registered(g)

UnknownReported ==
    \E k \in 1..Len(console) :
        console[k][1] = Str(<<"U", "n", "k", "n", "o", "w", "n", " ", "g", "e", "n", "e", "r", "a", "t", "o", "r", ":", " ">>)

\* C11 as the spec states it: a run that asks for an unregistered generator never
\* crashes, reads no config file, runs no generator, writes no output file and
\* ends with the "Unknown generator" report. The script violates it.
C11_Original ==
    UnknownRequested =>
        /\ pc # "threw"
        /\ json = Undefined
        /\ kll = Undefined
        /\ files.out = <<>>
        /\ pc = "done" => UnknownReported

\* what the script does keep: a missing or unregistered name on the command line
\* that no object inherits is reported before any file is read
C11_CommandLineReported ==
    (~Truthy(generator) \/ (generator.v \notin {All, Conf} /\ ~HasGenerator(generator.v))) =>
        /\ pc \in {"start", "done"}
        /\ json = Undefined
        /\ kll = Undefined
        /\ files.out = <<>>
        /\ pc = "done" => UnknownReported

\* a conf run crashed on an unregistered generator after the config was read
C11_ConfCrash ==
    /\ pc = "threw"
    /\ json # Undefined
    /\ \E g \in ConfRequests : ~Registered(g)

\* an inherited name passed for a generator and an output file was written
C11_InheritedWritten ==
    /\ pc = "done"
    /\ Truthy(generator)
    /\ generator.v \in InheritedNames
    /\ files.out # <<>>


---------------------------------------------------------------------------
(* "all" *)

\* the name is not marked as excluded: g.indexOf('!') === -1
NotExcluded(g) == \A k \in 1..Len(g) : g[k] # "!"

\* the generators "all" runs, in the order of the registry
AllNames == SelectSeq(GeneratorNames, NotExcluded)

\* the run is an "all" run in or after its loop over the registry
AllRun == Truthy(generator) /\ generator.v = All /\ pc \in {"generate", "finish"}

\* C12: an "all" run calls every registered generator whose name has no '!' once,
\* without parameters, in the order of the registry, and stores what it returns
\* in animations under the generator's own name, after the animations the config
\* came with; every such entry holds at least one frame.
C12_AllRunsEach ==
    AllRun =>
        LET ran == SelectSeq(SubSeq(GeneratorNames, 1, iter), NotExcluded)
        IN  /\ Keys(json.animations.v) = Keys(files.ktype.animations.v) \o ran
            /\ \A k \in 1..Len(ran) :
                  LET a == Lookup(json.animations.v, ran[k])
                  IN  /\ "frames" \in DOMAIN a
                      /\ Len(a.frames.v) >= 1
                      /\ (pc = "finish" /\ GeneratorDraws(ran[k], <<>>) = 0) =>
                            a = generators(ran[k], <<>>)
            /\ pc = "finish" => ran = AllNames

\* an "all" run has called every generator
C12_Witness ==
    /\ AllRun
    /\ pc = "finish"
    /\ iter = Len(GeneratorNames)
    /\ Len(json.animations.v) = Len(GeneratorNames) + 1


---------------------------------------------------------------------------
(* A single generator *)

\* the run is the run of one generator, after the generator has run
SingleRun ==
    /\ Truthy(generator)
    /\ generator.v \notin {All, Conf}
    /\ HasGenerator(generator.v)
    /\ pc \in {"finish", "done"}

\* the animations the config came with
StoredAnimations == IF Truthy(files.ktype.animations) THEN files.ktype.animations.v ELSE <<>>

\* animations is the stored animations with exactly the entry G written
OnlyWritten(animations, G) ==
    /\ HasKey(animations, G)
    /\ \A k \in 1..Len(animations) :
          animations[k].name = G \/ HasKey(StoredAnimations, animations[k].name)
    /\ \A k \in 1..Len(StoredAnimations) :
          StoredAnimations[k].name # G =>
              /\ HasKey(animations, StoredAnimations[k].name)
              /\ Lookup(animations, StoredAnimations[k].name) = StoredAnimations[k].value

\* C13: the run of a single generator G creates or overwrites animations[G] and
\* nothing else: every other animation of the input config is in the animations
\* map, and in the file written, with the value it had.
C13_OnlyOwnEntry ==
    SingleRun =>
        /\ OnlyWritten(json.animations.v, generator.v)
        /\ \A k \in 1..Len(files.out) :
              OnlyWritten(files.out[k].content.animations.v, generator.v)

\* a single run wrote a config that keeps a stored animation next to the new one
C13_Witness ==
    /\ SingleRun
    /\ pc = "done"
    /\ files.out # <<>>
    /\ \E k \in 1..Len(StoredAnimations) : StoredAnimations[k].name # generator.v

\* a single run overwrote the stored animation that has the generator's name
C13_Overwritten ==
    /\ SingleRun
    /\ files.out # <<>>
    /\ HasKey(StoredAnimations, generator.v)
    /\ Lookup(files.out[1].content.animations.v, generator.v)
          # Lookup(StoredAnimations, generator.v)


---------------------------------------------------------------------------
(* The key assignments *)

\* the matrix of a config file that was written
WrittenMatrix(k) == files.out[k].content.matrix

\* the codes of the keys that trigger the animations of a written config
BoundCodes(k) ==
    {Str(keyCodes[i]) :
        i \in 1..MathMin(Len(keyCodes), Len(files.out[k].content.animations.v))}

\* layer "name" of key "key" is in the written key "written" as it was
LayerKept(key, written, name) ==
    HasKey(written.layers, name) /\ Lookup(written.layers, name) = Lookup(key.layers, name)

---------------------------------------------------------------------------
(* The geometry *)

\* main() is past the step that loads kll.json
GeometryStepTaken == json # Undefined /\ pc # "geometry"

\* the rows and the columns of the pixels of the geometry file
PixelRows == {files.kll.PixelIds[k].value.Row : k \in 1..Len(files.kll.PixelIds)}
PixelCols == {files.kll.PixelIds[k].value.Col : k \in 1..Len(files.kll.PixelIds)}

\* C15 as the spec states it: loading the geometry never fails; after it maxRow
\* is the largest Row and maxCol the largest Col of all PixelIds entries, and both
\* are 0 when PixelIds is empty or the geometry file is missing. The script
\* throws when the file is missing.
C15_Original ==
    GeometryStepTaken =>
        /\ ~(pc = "threw" /\ kll = Undefined)
        /\ IF files.kll = Undefined \/ PixelRows = {}
           THEN maxRow = 0 /\ maxCol = 0
           ELSE maxRow = Largest(PixelRows) /\ maxCol = Largest(PixelCols)

\* what the script does keep: when kll.json is there, loading it does not fail
\* and leaves the largest Row and Col in maxRow and maxCol, 0 for no pixels
C15_LargestWhenPresent ==
    (GeometryStepTaken /\ files.kll # Undefined) =>
        /\ kll = files.kll
        /\ IF PixelRows = {}
           THEN maxRow = 0 /\ maxCol = 0
           ELSE maxRow = Largest(PixelRows) /\ maxCol = Largest(PixelCols)

\* the geometry was loaded from a file with pixels in several rows and columns
C15_Loaded ==
    /\ GeometryStepTaken
    /\ files.kll # Undefined
    /\ maxRow > 0
    /\ maxCol > maxRow

\* the geometry was loaded from a file without pixels
C15_LoadedEmpty ==
    /\ GeometryStepTaken
    /\ files.kll # Undefined
    /\ PixelRows = {}
    /\ pc = "done"


---------------------------------------------------------------------------
(* The trigger keys *)

\* the step that binds the trigger keys and writes the config threw
WriteFailed ==
    /\ pc = "threw"
    /\ kll # Undefined
    /\ generator.v = Conf => iter = Len(files.conf.activeAnimations)

\* the action that starts (on) or stops animation "name"
AnimationAction(name, on) ==
    Str(<<"A", "[">> \o name \o <<"]", "(">>
            \o (IF on THEN <<"s", "t", "a", "r", "t">> ELSE <<"s", "t", "o", "p">>) \o <<")">>)

\* the layer-1 triggers of "key" start animation i of "names" and stop the others
StartsOnly(key, names, i) ==
    /\ key.triggers # Undefined
    /\ Keys(key.triggers.v) = << <<"1">> >>
    /\ LET list == Lookup(key.triggers.v, <<"1">>)
       IN  /\ Len(list) = Len(names)
           /\ \A a \in 1..Len(names) : list[a].action = AnimationAction(names[a], a = i)

\* every animation of the config has exactly one key that starts it and stops the
\* others (a key cannot do so for two animations)
BoundOneEach(config) ==
    LET names == Keys(config.animations.v)
    IN  \A i \in 1..Len(names) :
            Cardinality({m \in 1..Len(config.matrix) :
                            StartsOnly(config.matrix[m], names, i)}) = 1

\* C16 as the spec states it: main binds a trigger key of its own to every
\* animation of the merged map, whose layer-1 triggers start that animation and
\* stop every other one, in map order. The script throws when the matrix has
\* fewer trigger keys than the map has animations.
C16_Original ==
    /\ ~WriteFailed
    /\ \A k \in 1..Len(files.out) : BoundOneEach(files.out[k].content)

\* what the script does keep: every config it writes has the keys bound
C16_BoundWhenWritten ==
    \A k \in 1..Len(files.out) : BoundOneEach(files.out[k].content)

\* an "all" run wrote a config with a trigger key for each of its animations
C16_Bound ==
    /\ Truthy(generator)
    /\ generator.v = All
    /\ files.out # <<>>
    /\ Len(files.out[1].content.animations.v) > Len(GeneratorNames)

\* the animations outnumbered the trigger keys of the matrix
C16_TooFewKeys ==
    /\ WriteFailed
    /\ Len(json.animations.v) > Cardinality({m \in 1..Len(json.matrix) :
                                                \E i \in 1..Len(keyCodes) :
                                                    json.matrix[m].code = Str(keyCodes[i])})


---------------------------------------------------------------------------
(* verticalPulseWithTracers *)

\* verticalPulseWithTracers was called and has returned
TracersCalled == call # NoCall /\ call.f = "verticalPulseWithTracers"

\* the plan of the call: the nulls pushed and the steps per colour
CalledPlan ==
    TracerPlan(TracerSteps(call.stepsPerColor).v, Len(DefaultedColors(call.colorValues)))

\* the length of the ring of the tracers: the side with its nulls
RingLength == Len(TracerSide(GlobalArray("LEFT_BASE_LEDS"), CalledPlan.addSteps).v)

\* the frames the call returned
TracerFramesReturned == ret.frames.v

\* C18 as the spec states it: for every stepsPerColor >= 1 and two or more
\* colours the number of frames is a whole multiple of the length of the
\* null-padded ring, so that the tracers complete whole rounds. The script
\* violates it.
C18_Original ==
    TracersCalled => Len(TracerFramesReturned) % RingLength = 0

\* what the script does keep: without padding, the frames are whole rounds of the
\* 17 positions of the ring
C18_WholeRoundsUnpadded ==
    (TracersCalled /\ CalledPlan.addSteps = 0) =>
        /\ RingLength = Len(LEFT_BASE_LEDS)
        /\ Len(TracerFramesReturned) % RingLength = 0

\* a call that needed padding ended in the middle of a round
C18_BrokenRound ==
    /\ TracersCalled
    /\ CalledPlan.addSteps > 0
    /\ Len(TracerFramesReturned) % RingLength # 0

\* the positions of the "[" of the commands of a frame
CommandStarts(frame) == SelectSeq([k \in 1..Len(frame) |-> k], LAMBDA k : frame[k] = "[")

IdsAt(frame, starts) == [n \in 1..Len(starts) |-> MatchPixelId(frame, starts[n])]

\* the pixel identifiers of the commands of a frame, in the order of the frame
CommandIds(frame) == IdsAt(frame, CommandStarts(frame))

NonDecreasing(ids) == \A n \in 1..Len(ids) - 1 : ids[n] <= ids[n + 1]

\* C19: in every frame of verticalPulseWithTracers the pixel commands stand in
\* non-decreasing order of their pixel identifier.
C19_FramesSorted ==
    TracersCalled =>
        \A k \in 1..Len(TracerFramesReturned) :
            NonDecreasing(CommandIds(TracerFramesReturned[k].v))

\* a call with a padded ring returned more frames than the ring has positions,
\* so that the tracers went round
C19_Witness ==
    /\ TracersCalled
    /\ CalledPlan.addSteps > 0
    /\ Len(TracerFramesReturned) > RingLength
    /\ Len(CommandIds(TracerFramesReturned[RingLength + 1].v)) > 2

\* the pixels of the keyboard and of the base that verticalPulseWithTracers lights
TracerPixelIds == {1, 87} \cup {87 + k : k \in 1..32}

ExactlyOnce(ids, S) ==
    /\ Len(ids) = Cardinality(S)
    /\ {ids[n] : n \in 1..Len(ids)} = S

\* C20: every frame of verticalPulseWithTracers holds exactly 34 commands: one for
\* pixel 1, one for pixel 87 and one for each base LED 88..119, whatever the
\* rotation of the ring and the number of nulls pushed to it.
C20_AllPixelsOnce ==
    TracersCalled =>
        \A k \in 1..Len(TracerFramesReturned) :
            ExactlyOnce(CommandIds(TracerFramesReturned[k].v), TracerPixelIds)

\* a call pushed nulls to the ring and went on for a round and more: the frame
\* at the end of the first round, in which the ring is shifted as far as it gets,
\* has the 34 commands
C20_Witness ==
    /\ TracersCalled
    /\ CalledPlan.addSteps > 1
    /\ Len(TracerFramesReturned) > RingLength
    /\ Len(CommandIds(TracerFramesReturned[RingLength].v)) = 34


---------------------------------------------------------------------------
(* The generators and the state of the script *)

\* main() is at a call of a generator: in the "all" loop, in the loop of
\* generateFromConf, or at the call of the single generator
AtGenerator ==
    \/ pc = "conf"
    \/ pc = "generate" /\ generator.v # Conf

\* the i-th active animation of kiianiconf.json
ActiveAnimation(i) == Lookup(files.conf.animations, files.conf.activeAnimations[i])

\* its parameters: anim.params || []
ActiveParams(i) ==
    IF Truthy(ActiveAnimation(i).params) THEN ActiveAnimation(i).params.v ELSE <<>>

\* the entry of animations it was stored in
ActiveEntry(i) ==
    Lookup(json.animations.v, RemoveNonWord(ReplaceSpaces(files.conf.activeAnimations[i])))

\* every animation a "conf" run has generated without random numbers is what its
\* generator returns for its parameters, whatever ran before it
ConfResultsRepeatable ==
    (pc = "finish" /\ generator.v = Conf) =>
        \A i \in 1..Len(files.conf.activeAnimations) :
            GeneratorDraws(ActiveAnimation(i).generator.v, ActiveParams(i)) = 0 =>
                ActiveEntry(i) = generators(ActiveAnimation(i).generator.v, ActiveParams(i))

\* C17: a call of a generator leaves maxRow, maxCol, the LED lists, the base LED
\* arrays and the parameters of the conf file as they were, and the animation a
\* generator without random numbers returns is the same whatever ran before it.
C17_Stateless ==
    /\ [][AtGenerator =>
             /\ UNCHANGED <<maxRow, maxCol, blankLeds, keyedLeds, ledIdByScanCode, baseLeds>>
             /\ files'.conf = files.conf]_vars
    /\ []ConfResultsRepeatable

\* a "conf" run has generated the same animation twice, with other generators'
\* work in between or not: the two are equal
C17_Witness ==
    /\ pc = "finish"
    /\ generator.v = Conf
    /\ Len(files.conf.activeAnimations) = 2
    /\ ActiveAnimation(1) = ActiveAnimation(2)
    /\ ActiveEntry(1) = ActiveEntry(2)
    /\ Len(ActiveEntry(1).frames.v) > Len(LEFT_BASE_LEDS)

---------------------------------------------------------------------------
(* The tracers of verticalPulseWithTracers *)

\* the commands of a frame: from the "P" before each "[" to the comma before
\* the next command
CommandAt(frame, starts, n) ==
    SubSeq(frame, starts[n] - 1,
           IF n < Len(starts) THEN starts[n + 1] - 3 ELSE Len(frame))

CommandsAt(frame, starts) == {CommandAt(frame, starts, n) : n \in 1..Len(starts)}

FrameCommands(frame) == CommandsAt(frame, CommandStarts(frame))

\* the commands of the base LEDs 88..119 of a frame
BaseCommands(frame) == {c \in FrameCommands(frame) : MatchPixelId(c, 1) >= 88}

\* the ring of a side: the LEDs of the array followed by the nulls pushed
CalledRing(name) == TracerSide(GlobalArray(name), CalledPlan.addSteps).v

\* the bottom colours of the call: the bleed over the colours shifted by one
CalledBottomColors ==
    multiColorBleed(Num(CalledPlan.stepsPerInhale), Fn("sineInterpolate"),
                    getShiftedArray(DefaultedColors(call.colorValues)), 0).v

\* what stands at position j (from 0) of a ring rotated by f positions
RotatedAt(ring, f, j) == ring[((j + f) % Len(ring)) + 1]

\* channel c at full intensity on the last three positions, at 0.05 (rounded)
\* on the others
TracerChannel(c, j, ringLength) ==
    IF j > ringLength - 4 THEN c.v ELSE (c.v + 10) \div 20

TracerCommand(led, botColor, j, ringLength) ==
    getPixel(Null, Null,
             Num(TracerChannel(botColor.v[1], j, ringLength)),
             Num(TracerChannel(botColor.v[2], j, ringLength)),
             Num(TracerChannel(botColor.v[3], j, ringLength)), led).v

\* the commands of frame f as C21 states them: the LED at each position of
\* either side, in the colour of the position
TracerCommands(ltRing, rtRing, botColor, f) ==
    {TracerCommand(RotatedAt(ltRing, f, j), botColor, j, Len(ltRing)) :
        j \in {i \in 0..Len(ltRing) - 1 : ~IsNull(RotatedAt(ltRing, f, i))}}
    \cup
    {TracerCommand(RotatedAt(rtRing, f, j), botColor, j, Len(ltRing)) :
        j \in {i \in 0..Len(ltRing) - 1 : ~IsNull(RotatedAt(rtRing, f, i))}}

TracersAsStated(frames, ltRing, rtRing, botColors) ==
    \A f \in 0..Len(frames) - 1 :
        BaseCommands(frames[f + 1].v) = TracerCommands(ltRing, rtRing, botColors[f + 1], f)

\* C21: in frame f of verticalPulseWithTracers the ring has been rotated by f
\* positions; the base LED at ring position j gets the bottom colour of the
\* frame at full intensity when j is one of the last three positions
\* (j > ringLength - 4) and at 0.05 of it, rounded, otherwise, and the left and
\* the right LED of a position get the same colour.
C21_TracersByPosition ==
    TracersCalled =>
        TracersAsStated(TracerFramesReturned, CalledRing("LEFT_BASE_LEDS"),
                        CalledRing("RIGHT_BASE_LEDS"), CalledBottomColors)

\* a call with a padded ring went round: in the frame after the first round a
\* lit position holds a bright command that differs from the dim ones
C21_Witness ==
    /\ TracersCalled
    /\ CalledPlan.addSteps > 0
    /\ Len(TracerFramesReturned) > RingLength
    /\ Cardinality({SubSeq(c, IndexOf(c, "(", 1), Len(c)) :
                       c \in BaseCommands(TracerFramesReturned[RingLength + 2].v)}) = 2


---------------------------------------------------------------------------
(* Calls of the generators once main() has loaded a device *)

MaxCyclerSteps == 6    \* largest stepsPerColor passed to keyGroupCycler
MaxCyclerColors == 3   \* largest number of colours passed to keyGroupCycler
MaxKittWidth == 7      \* largest width passed to kitt2000
MaxNoiseFrames == 3    \* largest maxFrames passed to whiteNoise

\* a device whose LEDs with and without a scan code alternate
MixedConfig ==
    [SmallConfig EXCEPT
        !.leds = <<[id |-> Num(1), scanCode |-> Undefined],
                   [id |-> Num(2), scanCode |-> Str(ScanCode(1))],
                   [id |-> Num(3), scanCode |-> Undefined],
                   [id |-> Num(4), scanCode |-> Str(ScanCode(37))],
                   [id |-> Num(5), scanCode |-> Str(ScanCode(88))]>>]

\* the directories main() has read, and the values Math.random() is to return
Stages ==
    {Run(Undefined, KTypeConfig, KTypeGeometry, Undefined, <<0>>),
     Run(Undefined, SmallConfig, SmallGeometry, Undefined, <<RandomDen - 1>>),
     Run(Undefined, MixedConfig, Geometry(5, 3), Undefined,
         <<0, RandomDen - 1, RandomDen \div 2>>)}

\* ledIdByScanCode[leds[i].scanCode] = leds[i].id for every LED, in config order
LedIds(leds) ==
    [code \in {JSToString(leds[k].scanCode) : k \in 1..Len(leds)} |->
        leds[CHOOSE k \in 1..Len(leds) :
                /\ JSToString(leds[k].scanCode) = code
                /\ \A j \in k + 1..Len(leds) : JSToString(leds[j].scanCode) # code].id]

\* main() has read the config and the geometry and is about to call a generator
InitCalls ==
    /\ \E s \in Stages :
          /\ files = [ktype |-> s.ktype, kll |-> s.kll, conf |-> s.conf, out |-> <<>>]
          /\ random = s.random
          /\ json = [s.ktype EXCEPT !.animations = IF Truthy(@) THEN @ ELSE Obj(<<>>)]
          /\ keyedLeds = SelectSeq(s.ktype.leds, LAMBDA led : Truthy(led.scanCode))
          /\ blankLeds = SelectSeq(s.ktype.leds, LAMBDA led : ~Truthy(led.scanCode))
          /\ ledIdByScanCode = LedIds(s.ktype.leds)
          /\ kll = s.kll
          /\ maxRow = Largest({0} \cup {s.kll.PixelIds[k].value.Row :
                                          k \in 1..Len(s.kll.PixelIds)})
          /\ maxCol = Largest({0} \cup {s.kll.PixelIds[k].value.Col :
                                          k \in 1..Len(s.kll.PixelIds)})
    /\ pc = "generate"
    /\ console = <<>>
    /\ generator = Str(Conf)
    /\ baseLeds = [LEFT_BASE_LEDS |-> Numbers(LEFT_BASE_LEDS),
                   RIGHT_BASE_LEDS |-> Numbers(RIGHT_BASE_LEDS)]
    /\ iter = 0
    /\ call = NoCall
    /\ ret = Undefined

CyclerStepCounts == {Undefined, Null} \cup {Num(n) : n \in 2..MaxCyclerSteps}
CyclerColorLists == {[k \in 1..n |-> TracerPalette(k)] : n \in 0..MaxCyclerColors}
KittColors == {Undefined, Color(0, 40, 255)}
KittWidths == {Undefined} \cup {Num(n) : n \in 1..MaxKittWidth}
NoiseFrameCounts == {Undefined} \cup {Num(n) : n \in 0..MaxNoiseFrames}

CyclerName == <<"k", "e", "y", "G", "r", "o", "u", "p", "C", "y", "c", "l", "e", "r">>
KittName == <<"k", "i", "t", "t", "2", "0", "0", "0">>
NoiseName == <<"w", "h", "i", "t", "e", "N", "o", "i", "s", "e">>
PlainNames ==
    {<<"t", "o", "p", "A", "n", "d", "B", "o", "t", "t", "o", "m">>,
     <<"t", "o", "p", "A", "n", "d", "B", "o", "t", "t", "o", "m", "2">>,
     <<"b", "l", "u", "e", "G", "r", "e", "e", "n", "B", "a", "s", "e", "T", "o", "p", "B", "r", "e", "a", "t", "h", "S", "p", "i", "n">>}

\* generators[name].apply(null, params): what it returns, what it draws and what
\* it leaves in the base arrays
Called(name, params) ==
    /\ call = NoCall
    /\ call' = [f |-> name, params |-> params]
    /\ ret' = generators(name, params)
    /\ random' = Drawn(GeneratorDraws(name, params))
    /\ baseLeds' = GeneratorLeaves(name, params, ret')
    /\ UNCHANGED <<pc, files, console, generator, json, kll, maxRow, maxCol,
                   blankLeds, keyedLeds, ledIdByScanCode, iter>>

CallKeyGroupCycler ==
    \E stepsPerColor \in CyclerStepCounts, colorValues \in CyclerColorLists :
        Called(CyclerName, <<stepsPerColor>> \o colorValues)

CallKitt2000 ==
    \E hiColor \in KittColors, bgColor \in KittColors, width \in KittWidths :
        Called(KittName, <<hiColor, bgColor, width>>)

CallWhiteNoise ==
    \E maxFrames \in NoiseFrameCounts : Called(NoiseName, <<maxFrames>>)

\* topAndBottom, topAndBottom2 and blueGreenBaseTopBreathSpin take no argument
CallPlain == \E name \in PlainNames : Called(name, <<>>)

NextCalls ==
    \/ CallKeyGroupCycler
    \/ CallKitt2000
    \/ CallWhiteNoise
    \/ CallPlain

SpecCalls == InitCalls /\ [][NextCalls]_vars


---------------------------------------------------------------------------
(* The key groups of keyGroupCycler *)

CyclerCalled == call # NoCall /\ call.f = CyclerName

\* stepsPerColor and the number of colours of the call
CyclerSteps ==
    IF IsUndefined(call.params[1]) \/ IsNull(call.params[1]) THEN 16 ELSE call.params[1].v

CyclerColorCount == Len(DefaultedColors(Rest(call.params, 2)))

\* the text between the brackets of a command that starts at "start"
ColorAt(frame, start) ==
    SubSeq(frame, IndexOf(frame, "(", start) + 1, IndexOf(frame, ")", start) - 1)

CommandColorsAt(frame, starts) ==
    [n \in 1..Len(starts) |-> ColorAt(frame, starts[n])] \o <<>>

\* the colours of the commands of a frame, in the order of the frame
CommandColors(frame) == CommandColorsAt(frame, CommandStarts(frame))

FrameColors(frames) == [f \in 1..Len(frames) |-> CommandColors(frames[f].v)] \o <<>>

\* the number of commands a frame holds for the n-th key group
GroupSize(n) ==
    Len(Flatten([j \in 1..Len(KEY_GROUPS[n].keys) |->
                    IF IsArray(KEY_GROUPS[n].keys[j])
                    THEN IdRange(keyToId(KEY_GROUPS[n].keys[j].v[1]),
                                 keyToId(KEY_GROUPS[n].keys[j].v[2]))
                    ELSE <<keyToId(KEY_GROUPS[n].keys[j])>>]))

GroupSizes == [n \in 1..Len(KEY_GROUPS) |-> GroupSize(n)] \o <<>>

\* the commands before those of the n-th group
GroupOffset(sizes, n) == Len(Flatten([m \in 1..n - 1 |-> [i \in 1..sizes[m] |-> m]]))

\* the colours a frame gives the n-th group
GroupColors(colors, sizes, n) ==
    {colors[GroupOffset(sizes, n) + i] : i \in 1..sizes[n]}

\* a group that has LEDs on the device has one colour in frame f, and a later
\* group that has LEDs has in frame f the colour the group has stepsPerColor
\* frames later for each group between them
PhaseShifted(rows, sizes, steps) ==
    \A f \in 0..Len(rows) - 1 : \A n \in 1..Len(sizes) :
        sizes[n] > 0 =>
            /\ Cardinality(GroupColors(rows[f + 1], sizes, n)) = 1
            /\ \A m \in n + 1..Len(sizes) :
                  sizes[m] > 0 =>
                      GroupColors(rows[f + 1], sizes, m)
                          = GroupColors(rows[((f + (m - n) * steps) % Len(rows)) + 1],
                                        sizes, n)

\* C22: keyGroupCycler with an integer stepsPerColor >= 2 (16 when none is
\* given) and k colours returns k * stepsPerColor frames, and each key group is
\* one colour behind the group before it in KEY_GROUPS: the colour of group
\* m + 1 in frame f is the colour of group m in frame
\* (f + stepsPerColor) mod (k * stepsPerColor).
C22_GroupsPhaseShifted ==
    CyclerCalled =>
        /\ Len(ret.frames.v) = CyclerColorCount * CyclerSteps
        /\ PhaseShifted(FrameColors(ret.frames.v), GroupSizes, CyclerSteps)

\* a call with three colours on the K-Type: every group has its LEDs, and two
\* neighbouring groups differ in the first frame
C22_Witness ==
    /\ CyclerCalled
    /\ CyclerColorCount = 3
    /\ \A n \in 1..Len(KEY_GROUPS) : GroupSize(n) > 0
    /\ GroupColors(CommandColors(ret.frames.v[1].v), GroupSizes, 1)
           # GroupColors(CommandColors(ret.frames.v[1].v), GroupSizes, 2)


---------------------------------------------------------------------------
(* The track of kitt2000 *)

KittCalled == call # NoCall /\ call.f = KittName

\* the colours and the width of the call
KittHiColor == DefaultColor(call.params[1], 255, 0, 0)
KittBgColor == DefaultColor(call.params[2], 0, 0, 0)
KittWidth == IF IsUndefined(call.params[3]) THEN Num(5) ELSE call.params[3]

\* the column of the command that starts at "start": the number between "c:"
\* and "%"
ColumnAt(frame, start) ==
    IF frame[start + 3] = "-"
    THEN -ParseDigits(frame, start + 4, IndexOf(frame, "%", start) - 1)
    ELSE ParseDigits(frame, start + 3, IndexOf(frame, "%", start) - 1)

ColumnsAt(frame, starts) == [n \in 1..Len(starts) |-> ColumnAt(frame, starts[n])] \o <<>>

\* the columns of the commands of a frame, in the order of the frame
CommandColumns(frame) == ColumnsAt(frame, CommandStarts(frame))

\* the place of the head in the frame of round i: behind the command of the
\* left edge and the commands of the tail on its left
HeadPlace(bleedColors, i) ==
    2 + Len(Kitt2000Left(KittBgColor, Arr(Reverse(bleedColors.v)), Len(bleedColors.v), i))

HeadPlaces(bleedColors, order) ==
    [k \in 1..Len(order) |-> HeadPlace(bleedColors, order[k])] \o <<>>

\* the place of the head in each frame of the call
KittHeadPlaces ==
    HeadPlaces(Kitt2000BleedColors(KittHiColor, KittBgColor, KittWidth),
               Kitt2000Order(Len(Kitt2000Columns)))

HeadColumnsAt(frames, places) ==
    [k \in 1..Len(frames) |-> CommandColumns(frames[k].v)[places[k]]] \o <<>>

\* the column of the head in each frame of the call
KittHeadColumns == HeadColumnsAt(ret.frames.v, KittHeadPlaces)

Distance(a, b) == IF a >= b THEN a - b ELSE b - a

\* every frame is one track step of 2% away from the frame after it, the last
\* frame from the first
OneStepApart(heads) ==
    \A k \in 1..Len(heads) : Distance(heads[k], heads[(k % Len(heads)) + 1]) = 2

\* the head walks up over the positions 0%, 2%, ..., 102%
WalksForward(heads) == \A k \in 1..52 : heads[k] = 2 * (k - 1)

\* the head walks back down from 100% as far as 4%
WalksBackward(heads) ==
    /\ Len(heads) = 101
    /\ \A k \in 53..101 : heads[k] = 2 * (103 - k)

\* C23 as the spec states it: kitt2000 walks the head over the positions
\* 0%, 2%, ..., 102% and back, and the head of every frame is exactly one track
\* step away from the head of the next frame, the first frame following the
\* last. The script violates it.
C23_Original ==
    KittCalled => WalksForward(KittHeadColumns) /\ OneStepApart(KittHeadColumns)

\* what the script does keep: the head walks up over all 52 positions, and back
\* down as far as 4%, one step per frame
C23_WalkWithinLoop ==
    KittCalled => WalksForward(KittHeadColumns) /\ WalksBackward(KittHeadColumns)

\* the last frame and the first are two steps apart
C23_Jump ==
    /\ KittCalled
    /\ Distance(KittHeadColumns[Len(KittHeadColumns)], KittHeadColumns[1]) = 4

---------------------------------------------------------------------------
(* The columns of a kitt2000 frame *)

StrictlyIncreasing(cols) == \A k \in 1..(Len(cols) - 1) : cols[k] < cols[k + 1]

NoColumnTwice(cols) == \A k, l \in 1..Len(cols) : cols[k] = cols[l] => k = l

\* the commands of the frame go from -2% to 102%, every column once, in rising
\* order
ColumnsInOrder(cols) ==
    /\ cols[1] = -2
    /\ cols[Len(cols)] = 102
    /\ NoColumnTwice(cols)
    /\ StrictlyIncreasing(cols)

AllColumnsInOrder(frames) == \A k \in 1..Len(frames) : ColumnsInOrder(CommandColumns(frames[k].v))

\* C24 as the spec states it: in every frame of kitt2000 no column is addressed
\* by more than one command and the columns of the commands rise strictly from
\* -2% to 102%. The script violates it at both ends of the track.
C24_Original == KittCalled => AllColumnsInOrder(ret.frames.v)

\* the head positions whose frames are in order: a head far enough from both
\* ends of the track
InOrderAwayFromEnds(frames, heads, width) ==
    \A k \in 1..Len(frames) :
        (heads[k] >= 2 * width + 2 /\ heads[k] <= 98 - 2 * width)
            => ColumnsInOrder(CommandColumns(frames[k].v))

\* what the script does keep: the frames whose head is at least width + 1
\* steps away from both ends of the track are in order
C24_InOrderAwayFromEnds ==
    (KittCalled /\ KittWidth.t = "Num")
        => InOrderAwayFromEnds(ret.frames.v, KittHeadColumns, KittWidth.v)

\* a frame of the default call that addresses a column twice
C24_ColumnTwice ==
    /\ KittCalled
    /\ \E k \in 1..Len(ret.frames.v) : ~NoColumnTwice(CommandColumns(ret.frames.v[k].v))


---------------------------------------------------------------------------
(* The colour of the head of kitt2000 *)

\* the text of a colour in a command
ColorText(color) == ColorAt(ColorPixel(Null, Percent(0), color, Undefined).v, 1)

HeadColorsAt(frames, places) ==
    [k \in 1..Len(frames) |-> CommandColors(frames[k].v)[places[k]]] \o <<>>

\* the colour of the command of the head in each frame of the call
KittHeadColors == HeadColorsAt(ret.frames.v, KittHeadPlaces)

AllHeads(heads, text) == \A k \in 1..Len(heads) : heads[k] = text

\* C25 as the spec states it: in every frame of kitt2000 the command of the
\* head carries the highlight colour hiColor given to the generator (default
\* [255,0,0]). The script violates it.
C25_Original == KittCalled => AllHeads(KittHeadColors, ColorText(KittHiColor))

\* what the script does keep: the head carries the first colour left after
\* "bleedColors.shift()", which is step 1 of the fade from hiColor to bgColor
C25_HeadIsFirstBleedColor ==
    KittCalled =>
        AllHeads(KittHeadColors,
                 ColorText(Get(Kitt2000BleedColors(KittHiColor, KittBgColor, KittWidth), Num(0))))

\* the default call, whose head is (204,0,0)
C25_DimmedHead ==
    /\ KittCalled
    /\ call.params = <<Undefined, Undefined, Undefined>>
    /\ AllHeads(KittHeadColors, <<"2", "0", "4", ",", "0", ",", "0">>)


---------------------------------------------------------------------------
(* The rotation of the base ring in topAndBottom2 and blueGreenBaseTopBreathSpin *)

TopAndBottom2Name == <<"t", "o", "p", "A", "n", "d", "B", "o", "t", "t", "o", "m", "2">>
SpinName == <<"b", "l", "u", "e", "G", "r", "e", "e", "n", "B", "a", "s", "e", "T", "o", "p", "B", "r", "e", "a", "t", "h", "S", "p", "i", "n">>

SpinCalled == call # NoCall /\ call.f \in {TopAndBottom2Name, SpinName}

\* "var popped = ids.pop(); ids.unshift(popped);" on a ring that is not empty
PopUnshift(ids) == <<ids[Len(ids)]>> \o SubSeq(ids, 1, Len(ids) - 1)

\* the bottom colour of each frame: blue in topAndBottom2, the breath from
\* blue to green and back in blueGreenBaseTopBreathSpin
SpinBotColors ==
    IF call.f = TopAndBottom2Name
    THEN [f \in 1..Len(BaseIds) |-> Color(0, 0, 255)]
    ELSE multiColorBleed(Num((64 * 100) \div (10 * 10 * 2)), Fn("sineInterpolate"),
                         <<Color(0, 0, 255), Color(0, 255, 0)>>, 0).v

\* the text of botColor scaled by position / 32
ScaledText(botColor, position) ==
    ColorAt(getPixel(Null, Null,
                     Num(normColor(Real(Get(botColor, Num(0)).v * position, 32, 0))),
                     Num(normColor(Real(Get(botColor, Num(1)).v * position, 32, 0))),
                     Num(normColor(Real(Get(botColor, Num(2)).v * position, 32, 0))),
                     Num(0)).v, 1)

FrameIds(frames) == [f \in 1..Len(frames) |-> CommandIds(frames[f].v)] \o <<>>

\* the ring position of base LED 88 + m in frame f (from 0), by index offset
RingPosition(m, f) == (m + f + 1) % 32

\* in every frame LED 88 + m is the command behind the two keyboard commands
\* and RingPosition(m, f) base commands, with the frame's bottom colour scaled
\* by that position
ByIndexOffset(ids, colors, botColors) ==
    \A f \in 0..(Len(ids) - 1) : \A m \in 0..31 :
        /\ Len(ids[f + 1]) = 34
        /\ ids[f + 1][3 + RingPosition(m, f)] = 88 + m
        /\ colors[f + 1][3 + RingPosition(m, f)]
               = ScaledText(botColors[f + 1], RingPosition(m, f))

\* after 32 frames the ring is in its original order
BackAfter32(ids) == \A m \in 0..31 : ids[32][3 + m] = 88 + m

\* the place of LED 88 + m among the base commands of a frame
PlaceOf(frameIds, m) == CHOOSE p \in 0..31 : frameIds[3 + p] = 88 + m

\* over the first 32 frames every LED takes every position once
EachPositionOnce(ids) ==
    \A m \in 0..31 : {PlaceOf(ids[f], m) : f \in 1..32} = 0..31

\* one round of pop and unshift is one more step of the offset
RotationIsOffset ==
    \A k \in 0..64 : PopUnshift(UnshiftedBy(BaseIds, k)) = UnshiftedBy(BaseIds, k + 1)

\* C26: the rotation of the base ring of topAndBottom2 and
\* blueGreenBaseTopBreathSpin (pop the last id, put it at the front, once per
\* frame before drawing) is an index offset modulo 32: in frame f base LED 88+m
\* sits at ring position (m + f + 1) mod 32 and has the bottom colour scaled by
\* position/32; after 32 frames the ring is in its original order, and in the 32
\* frames of topAndBottom2 each LED takes each position exactly once.
C26_RotationByOffset ==
    SpinCalled =>
        /\ RotationIsOffset
        /\ Len(ret.frames.v) = (IF call.f = TopAndBottom2Name THEN 32 ELSE 64)
        /\ ByIndexOffset(FrameIds(ret.frames.v), FrameColors(ret.frames.v), SpinBotColors)
        /\ BackAfter32(FrameIds(ret.frames.v))
        /\ EachPositionOnce(FrameIds(ret.frames.v))

\* both generators have been called: in the first frame LED 119 is first on the
\* ring and dark, LED 118 last
C26_Witness ==
    /\ SpinCalled
    /\ call.f = SpinName
    /\ Len(ret.frames.v) = 64
    /\ CommandIds(ret.frames.v[1].v)[3] = 119
    /\ CommandIds(ret.frames.v[1].v)[34] = 118
    /\ CommandColors(ret.frames.v[1].v)[3] = <<"0", ",", "0", ",", "0">>


---------------------------------------------------------------------------
(* The single frame of topAndBottom *)

TopAndBottomName == <<"t", "o", "p", "A", "n", "d", "B", "o", "t", "t", "o", "m">>

TopAndBottomCalled == call # NoCall /\ call.f = TopAndBottomName

Occurrences(seq, x) == Cardinality({k \in 1..Len(seq) : seq[k] = x})

Members(seq) == {seq[k] : k \in 1..Len(seq)}

\* every LED of the config is in exactly one of the two lists, and each list
\* keeps the order of the config
Partition(leds, blank, keyed) ==
    /\ Len(blank) + Len(keyed) = Len(leds)
    /\ Members(blank) \cap Members(keyed) = {}
    /\ \A k \in 1..Len(leds) :
          Occurrences(blank, leds[k]) + Occurrences(keyed, leds[k]) = Occurrences(leds, leds[k])
    /\ \A k \in 1..Len(leds) : (leds[k] \in Members(blank)) = ~Truthy(leds[k].scanCode)
    /\ blank = SelectSeq(leds, LAMBDA led : led \in Members(blank))
    /\ keyed = SelectSeq(leds, LAMBDA led : led \in Members(keyed))

LedNumbers(leds) == [k \in 1..Len(leds) |-> leds[k].id.v]

\* the commands of the frame: one per LED of "blank", green, then one per LED of
\* "keyed", blue
GreenThenBlue(ids, colors, blank, keyed) ==
    /\ ids = LedNumbers(blank) \o LedNumbers(keyed)
    /\ Len(colors) = Len(ids)
    /\ \A k \in 1..Len(colors) :
          colors[k] = IF k <= Len(blank) THEN <<"0", ",", "2", "5", "5", ",", "0">>
                      ELSE <<"0", ",", "0", ",", "2", "5", "5">>

\* C27: topAndBottom returns a single frame with exactly one command per LED of
\* the device config: the LEDs without a scan code first, in config order, green,
\* then the LEDs with a scan code, in config order, blue; the two lists built by
\* main partition the LEDs of the config.
C27_OneCommandPerLed ==
    TopAndBottomCalled =>
        /\ Len(ret.frames.v) = 1
        /\ Partition(json.leds, blankLeds, keyedLeds)
        /\ Len(CommandIds(ret.frames.v[1].v)) = Len(json.leds)
        /\ GreenThenBlue(CommandIds(ret.frames.v[1].v), CommandColors(ret.frames.v[1].v),
                         blankLeds, keyedLeds)

\* the device whose LEDs alternate: the LEDs 1 and 3 come first
C27_Witness ==
    /\ TopAndBottomCalled
    /\ json.leds = MixedConfig.leds
    /\ CommandIds(ret.frames.v[1].v) = <<1, 3, 2, 4, 5>>


---------------------------------------------------------------------------
(* The frames of whiteNoise *)

NoiseCalled == call # NoCall /\ call.f = NoiseName

\* the three channels of a colour text "r,g,b"
ChannelsOf(text) ==
    <<ParseDigits(text, 1, IndexOf(text, ",", 1) - 1),
      ParseDigits(text, IndexOf(text, ",", 1) + 1,
                  IndexOf(text, ",", IndexOf(text, ",", 1) + 1) - 1),
      ParseDigits(text, IndexOf(text, ",", IndexOf(text, ",", 1) + 1) + 1, Len(text))>>

\* gray, at a level below the cap of 153
GrayBelowCap(channels) ==
    /\ channels[1] = channels[2]
    /\ channels[2] = channels[3]
    /\ channels[1] \in 0..152

AllGray(colors) == \A k \in 1..Len(colors) : GrayBelowCap(ChannelsOf(colors[k]))

\* one command per pixel identifier 1..119, in ascending order
AllPixelsAscending(ids) ==
    /\ Len(ids) = 119
    /\ \A k \in 1..Len(ids) : ids[k] = k

\* the number of frames asked for: 20 when maxFrames is absent or 0
FramesAsked(maxFrames) ==
    IF IsUndefined(maxFrames) \/ maxFrames = Num(0) THEN 20 ELSE maxFrames.v

\* C28: whiteNoise(maxFrames) returns exactly maxFrames frames (20 when
\* maxFrames is absent or 0) and no background frame; each frame lists its
\* pixel identifiers in ascending order, and every command is gray (r = g = b)
\* at a level in 0..152, below the intensity cap 153, whatever Math.random()
\* returns.
C28_GrayFrames ==
    NoiseCalled =>
        /\ Len(ret.frames.v) = FramesAsked(call.params[1])
        /\ \A f \in 1..Len(ret.frames.v) :
              /\ AllPixelsAscending(CommandIds(ret.frames.v[f].v))
              /\ AllGray(CommandColors(ret.frames.v[f].v))

\* whiteNoise(0) on the largest value Math.random() can return: 20 frames at
\* level 152
C28_Witness ==
    /\ NoiseCalled
    /\ call.params = <<Num(0)>>
    /\ Len(ret.frames.v) = 20
    /\ ChannelsOf(CommandColors(ret.frames.v[1].v)[1]) = <<152, 152, 152>>


---------------------------------------------------------------------------
(* The bleed engine of src/kiianigen.js against the one of the newer file *)

\* a call of the newer colorBleed with integer steps, a step index that is a
\* number or absent, and the default interpolation
LinearBleedCalled ==
    /\ call # NoCall
    /\ call.f = "colorBleed"
    /\ IsUndefined(call.interpolateFunc)
    /\ IsNumber(call.steps)
    /\ (IsNumber(call.step) \/ IsUndefined(call.step))

\* a call of the newer multiColorBleed with an integer frame count and the
\* default interpolation
LinearMultiBleedCalled ==
    /\ call # NoCall
    /\ call.f = "multiColorBleed"
    /\ IsUndefined(call.interpolateFunc)
    /\ IsNumber(call.frameCountPerColor)

\* C29 as the spec states it: for integer colours, integer step counts and
\* every step index, colorBleed of src/kiianigen.js returns what colorBleed of
\* the newer file returns with the default linear interpolation, and
\* multiColorBleed(n, colours...) of the older file what
\* multiColorBleed(n, undefined, colours...) of the newer one returns. The
\* script violates it.
C29_Original ==
    /\ LinearBleedCalled =>
          ret = colorBleedOld(call.origColor, call.destColor, call.steps, call.step)
    /\ LinearMultiBleedCalled =>
          ret = multiColorBleedOld(call.frameCountPerColor, call.colorValues)

\* the step at which the two differ: step 7 of 10 from black to (45,102,1)
C29_TieDiffers ==
    /\ LinearBleedCalled
    /\ call.origColor = Black
    /\ call.destColor = Dusk
    /\ call.steps = Num(10)
    /\ call.step = Num(7)
    /\ Get(ret, Num(0)) = Num(31)
    /\ Get(colorBleedOld(Black, Dusk, Num(10), Num(7)), Num(0)) = Num(32)

\* what the script does keep: both versions return the endpoints, origColor
\* clamped at step 0 and destColor clamped at the last step
C29_SameEndpoints ==
    (LinearBleedCalled /\ IsNumber(call.step) /\ call.steps.v >= 2
        /\ call.step.v \in {0, call.steps.v})
        => ret = colorBleedOld(call.origColor, call.destColor, call.steps, call.step)


---------------------------------------------------------------------------
(* Calls of sineInterpolate on inputs drawn from bounded sets *)

MaxSineSteps == 8     \* largest step count passed to sineInterpolate

SineValues == {-20, 0, 1, 45, 102, 128, 255, 300}

InitSine ==
    /\ random = <<0>>
    /\ call = NoCall
    /\ ret = Undefined
    /\ generator = Undefined
    /\ files = NoFiles
    /\ Globals

CallSineInterpolate ==
    /\ call = NoCall
    /\ \E steps \in 1..MaxSineSteps, step \in 0..MaxSineSteps,
          val1 \in SineValues, val2 \in SineValues :
          /\ step <= steps
          /\ call' = [f |-> "sineInterpolate", step |-> step, steps |-> steps,
                      val1 |-> val1, val2 |-> val2]
          /\ ret' = sineInterpolate(step, Num(steps), val1, val2)
    /\ UNCHANGED <<random, mainVars>>

NextSine == CallSineInterpolate

SpecSine == InitSine /\ [][NextSine]_vars

---------------------------------------------------------------------------
(* Monotony and symmetry of sineInterpolate *)

SineCalled == call # NoCall /\ call.f = "sineInterpolate"

\* a result in units of 2^-20 (its denominator is 1, 4 or 2^20)
Fine(x) == x.n * (2^20 \div x.d)

\* x <= y for two results
RealLeq(x, y) == Fine(x) <= Fine(y)

\* x + y is the integer c, up to 2^-16
SumWithin(x, y, c) == Abs(Fine(x) + Fine(y) - c * 2^20) <= 2^4

\* x is y, up to 2^-16
Near(x, y) == Abs(Fine(x) - Fine(y)) <= 2^4

\* the result does not fall when the step rises by one
NotFalling(step, steps, val1, val2) ==
    step < steps =>
        RealLeq(sineInterpolate(step, Num(steps), val1, val2),
                sineInterpolate(step + 1, Num(steps), val1, val2))

\* C30 as the spec states it: sineInterpolate(s, n, a, b) is non-decreasing in
\* s for a <= b, and sineInterpolate(s, n, a, b) + sineInterpolate(n-s, n, b, a)
\* is a + b within rounding tolerance. The sum is 2a at s = 0.
C30_Original ==
    SineCalled =>
        /\ call.val1 <= call.val2 => NotFalling(call.step, call.steps, call.val1, call.val2)
        /\ SumWithin(ret, sineInterpolate(call.steps - call.step, Num(call.steps),
                                          call.val2, call.val1),
                     call.val1 + call.val2)

\* C30, amended: sineInterpolate(s, n, a, b) is non-decreasing in s for a <= b,
\* and the step s and the step n - s of the same run from a to b add up to
\* a + b within rounding tolerance; the run from b to a, read backwards, is the
\* run from a to b.
C30_MonotoneAndSymmetric ==
    SineCalled =>
        /\ call.val1 <= call.val2 => NotFalling(call.step, call.steps, call.val1, call.val2)
        /\ SumWithin(ret, sineInterpolate(call.steps - call.step, Num(call.steps),
                                          call.val1, call.val2),
                     call.val1 + call.val2)
        /\ Near(ret, sineInterpolate(call.steps - call.step, Num(call.steps),
                                     call.val2, call.val1))

\* a step strictly inside a run that rises: step 1 of 8 from 0 to 255
C30_Witness ==
    /\ SineCalled
    /\ call.step = 1
    /\ call.steps = 8
    /\ call.val1 = 0
    /\ call.val2 = 255
    /\ RealLeq(Real(9, 1, 0), ret)
    /\ RealLeq(ret, Real(10, 1, 0))

====
